---- MODULE Spec2Model ----
(***************************************************************************)
(* A model of the LaTeX formatter's text-transformation and validation     *)
(* engine (src/latex_formatter.py, class LaTeXFormatter).                  *)
(*                                                                         *)
(* Texts are sequences of one-character strings.  Every regular expression *)
(* of the source is modelled by an operator that scans the text the way    *)
(* Python's re module does (leftmost match first, matches do not overlap,  *)
(* greedy or lazy quantifiers as written).                                 *)
(***************************************************************************)
EXTENDS Integers, Sequences, FiniteSets, TLC

VARIABLES
    pc,                 \* position of the running operation
    text,               \* the text the operation was called with
    content,            \* the working text (local variable `content`/`protected`)
    patterns,           \* self.protection_patterns, in evaluation order
    placeholders,       \* the placeholder map, in insertion order: <<token, original>>
    formatting_errors,  \* self._formatting_errors, as <<category, error>> pairs
    command_errors,     \* self._command_errors, as <<command, error>> pairs
    last_errors,        \* self.last_errors
    fault,              \* the function that raises in this run ("none": no fault)
    first,              \* the text returned by the previous format_content call
    runs,               \* number of completed format_content calls
    issues,             \* the list check_syntax / _check_* is building
    env_stack,          \* env_stack of _check_environment_balance
    all_commands,       \* the markers _check_environment_balance has still to replay
    other,              \* check_syntax: the second text of a pair of inputs;
                        \* format_content: once a stage has raised, the text
                        \* of the run that has no such stage
    rows,               \* the rows align_table_rows was called with
    aligned_rows        \* the rows align_table_rows returned

vars == <<pc, text, content, patterns, placeholders, formatting_errors,
          command_errors, last_errors, fault, first, runs, issues, env_stack,
          all_commands, other, rows, aligned_rows>>

(***************************************************************************)
(* Bounds of the model.                                                    *)
(***************************************************************************)
MaxFrags == 3       \* fragments per text given to protect/restore
MaxPatterns == 2    \* patterns per ordered pattern set
MaxSynFrags == 3    \* fragments per text given to check_syntax
MaxRows == 3        \* rows per run given to align_table_rows

(***************************************************************************)
(* Characters and Python string helpers.                                   *)
(***************************************************************************)
BS == "\\"
NL == "\n"
CR == "\r"

Digits == {"0", "1", "2", "3", "4", "5", "6", "7", "8", "9"}
Lower == {"a", "b", "c", "d", "e", "f", "g", "h", "i", "j", "k", "l", "m",
          "n", "o", "p", "q", "r", "s", "t", "u", "v", "w", "x", "y", "z"}
Upper == {"A", "B", "C", "D", "E", "F", "G", "H", "I", "J", "K", "L", "M",
          "N", "O", "P", "Q", "R", "S", "T", "U", "V", "W", "X", "Y", "Z"}
Alpha == Lower \cup Upper
AlNum == Alpha \cup Digits
\* \w and \s of Python's re
Word == AlNum \cup {"_"}
Space == {" ", "\t", "\n", "\r"}

Min(S) == CHOOSE x \in S : \A y \in S : x <= y
Max(S) == CHOOSE x \in S : \A y \in S : x >= y

\* t[i] where i may lie outside the text ("" is no character)
At(t, i) == IF i >= 1 /\ i <= Len(t) THEN t[i] ELSE ""

\* t[i:] of Python, 1-based
From(t, i) == SubSeq(t, i, Len(t))

\* does sub occur in t at index i
StartsAt(t, i, sub) ==
    /\ i >= 1
    /\ i + Len(sub) - 1 <= Len(t)
    /\ \A k \in 1..Len(sub) : t[i + k - 1] = sub[k]

\* the least element of a set of indices, 0 for the empty set
First(S) == IF S = {} THEN 0 ELSE Min(S)

\* t.find(sub, i): the least index >= i where sub occurs, 0 if none
Find(t, sub, i) == First({k \in i..(Len(t) - Len(sub) + 1) : StartsAt(t, k, sub)})

Contains(t, sub) == Find(t, sub, 1) > 0

\* t.replace(old, new) for a non-empty old
RECURSIVE Replace(_, _, _)
Replace(t, old, new) ==
    LET i == Find(t, old, 1) IN
    IF i = 0 THEN t
    ELSE SubSeq(t, 1, i - 1) \o new \o Replace(From(t, i + Len(old)), old, new)

\* t.split(sep) for a one-character sep: a non-empty sequence of texts
RECURSIVE Split(_, _)
Split(t, sep) ==
    LET i == Find(t, <<sep>>, 1) IN
    IF i = 0 THEN <<t>>
    ELSE <<SubSeq(t, 1, i - 1)>> \o Split(From(t, i + 1), sep)

\* sep.join(parts)
RECURSIVE Join(_, _)
Join(parts, sep) ==
    IF Len(parts) = 0 THEN <<>>
    ELSE IF Len(parts) = 1 THEN parts[1]
    ELSE parts[1] \o sep \o Join(Tail(parts), sep)

\* the indices of t that hold no whitespace
Solid(t) == {k \in 1..Len(t) : t[k] \notin Space}

\* t.rstrip(), t.lstrip(), t.strip()
RStrip(t) == IF Solid(t) = {} THEN <<>> ELSE SubSeq(t, 1, Max(Solid(t)))

LStrip(t) == IF Solid(t) = {} THEN <<>> ELSE From(t, Min(Solid(t)))

Strip(t) == LStrip(RStrip(t))

\* t.rstrip(chars) for a set of characters
RStripChars(t, C) ==
    LET S == {k \in 1..Len(t) : t[k] \notin C}
    IN  IF S = {} THEN <<>> ELSE SubSeq(t, 1, Max(S))

\* t.ljust(width)
LJust(t, width) ==
    IF Len(t) >= width THEN t ELSE t \o [k \in 1..(width - Len(t)) |-> " "]

\* t.endswith(suffix)
EndsWith(t, suffix) == StartsAt(t, Len(t) - Len(suffix) + 1, suffix)

\* the least index >= i whose character is not in class C (Len(t)+1 if none):
\* the end of a greedy C* started at i
Skip(t, i, C) ==
    LET S == {k \in i..Len(t) : t[k] \notin C}
    IN  IF S = {} THEN Max({i, Len(t) + 1}) ELSE Min(S)

\* str(n) for n >= 0
DigitOf(d) == CASE d = 0 -> "0" [] d = 1 -> "1" [] d = 2 -> "2" [] d = 3 -> "3"
                [] d = 4 -> "4" [] d = 5 -> "5" [] d = 6 -> "6" [] d = 7 -> "7"
                [] d = 8 -> "8" [] d = 9 -> "9"

RECURSIVE Str(_)
Str(n) == IF n < 10 THEN <<DigitOf(n)>> ELSE Str(n \div 10) \o <<DigitOf(n % 10)>>

\* re.sub(pattern, repl, t): M(t, i) is the index just after the match of the
\* pattern that starts at i (0: no match at i), R(t, i, e) its replacement.
\* No pattern of the formatter matches the empty string.
RECURSIVE Sub(_, _, _, _)
Sub(M(_, _), R(_, _, _), t, i) ==
    LET k == First({j \in i..Len(t) : M(t, j) > j})
    IN  IF k = 0 THEN From(t, i)
        ELSE SubSeq(t, i, k - 1) \o R(t, k, M(t, k)) \o Sub(M, R, t, M(t, k))

\* list(pattern.finditer(t)): the spans <<start, end>> (end exclusive), in order
RECURSIVE FindIter(_, _, _)
FindIter(M(_, _), t, i) ==
    LET k == First({j \in i..Len(t) : M(t, j) > j})
    IN  IF k = 0 THEN <<>> ELSE <<<<k, M(t, k)>>>> \o FindIter(M, t, M(t, k))

\* all texts made of at most n fragments of the set F
RECURSIVE Texts(_, _)
Texts(F, n) ==
    IF n = 0 THEN {<<>>}
    ELSE LET S == Texts(F, n - 1) IN S \cup {s \o f : s \in S, f \in F}

(***************************************************************************)
(* Protection patterns (PatternLoader._get_default_scientific_patterns,    *)
(* the list the formatter loads when no scientific_patterns.json exists;   *)
(* _compile_default_protection_patterns holds the same list).  A pattern   *)
(* is named by a string; PatEnd gives the end of its match at index i.     *)
(* The texts of the model hold no subscript digit, so the class [₀-₉]* of  *)
(* the chemical-formula pattern matches the empty string.                  *)
(***************************************************************************)
\* the end of a greedy [^...]* started at i (the class matches newlines too)
SkipNot(t, i, C) ==
    LET S == {k \in i..Len(t) : t[k] \in C}
    IN  IF S = {} THEN Max({i, Len(t) + 1}) ELSE Min(S)

LiS == <<"L", "i", "-", "S">>
Xray == <<"X", "-", "r", "a", "y">>

\* r'Li-S', r'X-ray': a literal
LitEnd(t, i, lit) == IF StartsAt(t, i, lit) THEN i + Len(lit) ELSE 0

\* r'\d+\.?\d*-\d+\.?\d*'
NumRangeEnd(t, i) ==
    LET a == Skip(t, i, Digits)
        b == IF At(t, a) = "." THEN a + 1 ELSE a
        c == Skip(t, b, Digits)
        e == Skip(t, c + 1, Digits)
        f == IF At(t, e) = "." THEN e + 1 ELSE e
    IN  IF a > i /\ At(t, c) = "-" /\ e > c + 1 THEN Skip(t, f, Digits) ELSE 0

\* r'\[[^=\]]*=[^=\]]*\]'
PkgOptEnd(t, i) ==
    LET a == SkipNot(t, i + 1, {"=", "]"})
        b == SkipNot(t, a + 1, {"=", "]"})
    IN  IF At(t, i) = "[" /\ At(t, a) = "=" /\ At(t, b) = "]" THEN b + 1 ELSE 0

\* r'[A-Z][a-z]?[₀-₉]*-[A-Z][a-z]?[₀-₉]*'
ChemicalEnd(t, i) ==
    LET a == IF At(t, i + 1) \in Lower THEN i + 2 ELSE i + 1
        c == IF At(t, a + 2) \in Lower THEN a + 3 ELSE a + 2
    IN  IF At(t, i) \in Upper /\ At(t, a) = "-" /\ At(t, a + 1) \in Upper
        THEN c ELSE 0

\* r'[A-Z][A-Za-z]*-[A-Za-z0-9]+'
MaterialEnd(t, i) ==
    LET a == Skip(t, i + 1, Alpha)
        b == Skip(t, a + 1, AlNum)
    IN  IF At(t, i) \in Upper /\ At(t, a) = "-" /\ b > a + 1 THEN b ELSE 0

PatEnd(p, t, i) ==
    CASE p = "Li-S" -> LitEnd(t, i, LiS)
      [] p = "X-ray" -> LitEnd(t, i, Xray)
      [] p = "numrange" -> NumRangeEnd(t, i)
      [] p = "pkgopt" -> PkgOptEnd(t, i)
      [] p = "chemical" -> ChemicalEnd(t, i)
      [] p = "material" -> MaterialEnd(t, i)

\* the default list, in its order, without the patterns that need a character
\* no text of the model holds (Greek subscripts, '@', '/', '%', the words
\* References, pages, equations, roll, charge, solid, two, HKUST, Ni, USTB)
DefaultPatterns == <<"Li-S", "X-ray", "numrange", "pkgopt", "chemical", "material">>

(***************************************************************************)
(* ContentProtector: _protect_scientific_content and                       *)
(* _restore_scientific_content.                                            *)
(***************************************************************************)
\* f"__PROTECT_{counter}__"
Token(counter) ==
    <<"_", "_", "P", "R", "O", "T", "E", "C", "T", "_">> \o Str(counter) \o <<"_", "_">>

\* for match in reversed(matches): replace the match by a fresh token.
\* st = [protected, placeholders, counter]; spans[1..k] are still to be done.
RECURSIVE ReplaceReversed(_, _, _)
ReplaceReversed(st, spans, k) ==
    IF k = 0 THEN st
    ELSE LET start == spans[k][1]
             end == spans[k][2]
             original == SubSeq(st.protected, start, end - 1)
             placeholder == Token(st.counter)
         IN  ReplaceReversed(
                 [protected |-> SubSeq(st.protected, 1, start - 1) \o placeholder
                                  \o From(st.protected, end),
                  placeholders |-> Append(st.placeholders, <<placeholder, original>>),
                  counter |-> st.counter + 1],
                 spans, k - 1)

\* for pattern in self.protection_patterns: ...
RECURSIVE ProtectLoop(_, _, _)
ProtectLoop(st, pats, j) ==
    IF j > Len(pats) THEN st
    ELSE LET matches == FindIter(LAMBDA t, i : PatEnd(pats[j], t, i), st.protected, 1)
         IN  ProtectLoop(ReplaceReversed(st, matches, Len(matches)), pats, j + 1)

protect_scientific_content(c, pats) ==
    ProtectLoop([protected |-> c, placeholders |-> <<>>, counter |-> 0], pats, 1)

\* for placeholder, original in placeholders.items(): content.replace(...)
RECURSIVE restore_scientific_content(_, _)
restore_scientific_content(c, map) ==
    IF Len(map) = 0 THEN c
    ELSE restore_scientific_content(Replace(c, map[1][1], map[1][2]), Tail(map))

\* does the text hold one of the tokens of the map
HasToken(c, map) == \E k \in 1..Len(map) : Contains(c, map[k][1])

(***************************************************************************)
(* SpecProtect: protect a text under an ordered pattern set, then restore. *)
(***************************************************************************)
ProtectFrags == {<<"a">>, <<" ">>, <<"-">>, <<"]">>, <<"[", "a", "=">>,
                 <<"1", "-", "2">>, LiS}

PatternPool == {"Li-S", "numrange", "pkgopt", "chemical", "material"}

\* all sequences of at most n elements of P
RECURSIVE Seqs(_, _)
Seqs(P, n) ==
    IF n = 0 THEN {<<>>}
    ELSE LET S == Seqs(P, n - 1)
         IN  S \cup {Append(s, p) : s \in S, p \in P}

NoRepeat(s) == \A i, j \in 1..Len(s) : i # j => s[i] # s[j]

PatternSets == {s \in Seqs(PatternPool, MaxPatterns) : NoRepeat(s)}
                   \cup {DefaultPatterns}

\* the values of the variables an operation does not use
IdleErrors ==
    /\ formatting_errors = <<>>
    /\ command_errors = <<>>
    /\ last_errors = <<>>
    /\ fault = "none"
    /\ first = <<>>
    /\ runs = 0

IdleSyntax ==
    /\ issues = <<>>
    /\ env_stack = <<>>
    /\ all_commands = <<>>
    /\ other = <<>>

IdleTable ==
    /\ rows = <<>>
    /\ aligned_rows = <<>>

errVars == <<formatting_errors, command_errors, last_errors, fault, first, runs>>
synVars == <<issues, env_stack, all_commands, other>>
tabVars == <<rows, aligned_rows>>

InitProtect ==
    /\ pc = "protect"
    /\ text \in Texts(ProtectFrags, MaxFrags)
    /\ content = text
    /\ patterns \in PatternSets
    /\ placeholders = <<>>
    /\ IdleErrors /\ IdleSyntax /\ IdleTable

Protect ==
    /\ pc = "protect"
    /\ LET st == protect_scientific_content(content, patterns)
       IN  /\ content' = st.protected
           /\ placeholders' = st.placeholders
    /\ pc' = "restore"
    /\ UNCHANGED <<text, patterns, errVars, synVars, tabVars>>

Restore ==
    /\ pc = "restore"
    /\ content' = restore_scientific_content(content, placeholders)
    /\ pc' = "restored"
    /\ UNCHANGED <<text, patterns, placeholders, errVars, synVars, tabVars>>

NextProtect == Protect \/ Restore

SpecProtect == InitProtect /\ [][NextProtect]_vars

\* C1: round trip: restoring the protected text with its placeholder map
\* gives back the original text, and no placeholder token is left in it.
C1_RoundTrip ==
    pc = "restored" => content = text /\ ~HasToken(content, placeholders)

(***************************************************************************)
(* SyntaxValidator: check_syntax, _remove_comments_and_verbatim,           *)
(* _check_brace_balance, _check_environment_balance.                       *)
(* A diagnostic is a tuple: its message kind and the values the message    *)
(* is formatted with.                                                      *)
(***************************************************************************)
BeginOpen == <<BS, "b", "e", "g", "i", "n", "{">>
EndOpen == <<BS, "e", "n", "d", "{">>
Verbatim == <<"v", "e", "r", "b", "a", "t", "i", "m">>
Lstlisting == <<"l", "s", "t", "l", "i", "s", "t", "i", "n", "g">>
Document == <<"d", "o", "c", "u", "m", "e", "n", "t">>

Begin(env) == BeginOpen \o env \o <<"}">>
End(env) == EndOpen \o env \o <<"}">>

\* rf"\\begin\{env\}.*?\\end\{env\}" with re.DOTALL: from the begin marker to
\* the first end marker after it
BlockEnd(t, i, env) ==
    LET e == Find(t, End(env), i + Len(Begin(env)))
    IN  IF StartsAt(t, i, Begin(env)) /\ e > 0 THEN e + Len(End(env)) ELSE 0

Nothing(t, i, e) == <<>>

\* the index of the first '%' of the line that no backslash precedes, 0 if none
CommentPos(line) ==
    First({i \in 1..Len(line) : line[i] = "%" /\ (i = 1 \/ line[i - 1] # BS)})

CutComment(line) ==
    LET comment_pos == CommentPos(line)
    IN  IF comment_pos > 0 THEN SubSeq(line, 1, comment_pos - 1) ELSE line

remove_comments_and_verbatim(c) ==
    LET noVerb == Sub(LAMBDA t, i : BlockEnd(t, i, Verbatim), Nothing, c, 1)
        noLst == Sub(LAMBDA t, i : BlockEnd(t, i, Lstlisting), Nothing, noVerb, 1)
        lines == Split(noLst, NL)
    IN  Join([k \in 1..Len(lines) |-> CutComment(lines[k])], <<NL>>)

\* the braces of a text, in order (the other characters change nothing in
\* the scan of _check_brace_balance)
Braces(t) == SelectSeq(t, LAMBDA ch : ch \in {"{", "}"})

\* the scan of _check_brace_balance over the braces b: depth is
\* len(brace_stack); the result is <<found an unmatched closer,
\* len(brace_stack) when the scan stopped>>
RECURSIVE BraceScan(_, _, _)
BraceScan(b, i, depth) ==
    IF i > Len(b) THEN <<FALSE, depth>>
    ELSE IF b[i] = "{" THEN BraceScan(b, i + 1, depth + 1)
    ELSE IF depth = 0 THEN <<TRUE, 0>>  \* issues.append(...); break
    ELSE BraceScan(b, i + 1, depth - 1)

\* a faulty variant of check_brace_balance that forgets the braces left open
check_brace_balance_closing_only(c) ==
    LET r == BraceScan(Braces(c), 1, 0)
    IN  IF r[1] THEN <<<<"Unmatched closing braces", 1>>>> ELSE <<>>

check_brace_balance(c) ==
    LET r == BraceScan(Braces(c), 1, 0)
    IN  (IF r[1] THEN <<<<"Unmatched closing braces", 1>>>> ELSE <<>>)
        \o (IF r[2] > 0 THEN <<<<"Unmatched opening braces", r[2]>>>> ELSE <<>>)

\* r"\\begin\{([^}]+)\}" and r"\\end\{([^}]+)\}": the end of the marker at i
MarkerEnd(t, i, open) ==
    LET a == SkipNot(t, i + Len(open), {"}"})
    IN  IF StartsAt(t, i, open) /\ a > i + Len(open) /\ At(t, a) = "}"
        THEN a + 1 ELSE 0

\* [(m.start(), cmd_type, m.group(1)) for m in re.finditer(...)]
MarkersOf(t, open, cmd_type) ==
    LET spans == FindIter(LAMBDA u, i : MarkerEnd(u, i, open), t, 1)
    IN  [k \in 1..Len(spans) |->
            <<spans[k][1], cmd_type,
              SubSeq(t, spans[k][1] + Len(open), spans[k][2] - 2)>>]

\* sorted(begins + ends): by position (no two markers start at one position)
RECURSIVE MergeByPos(_, _)
MergeByPos(a, b) ==
    IF Len(a) = 0 THEN b
    ELSE IF Len(b) = 0 THEN a
    ELSE IF a[1][1] < b[1][1] THEN <<a[1]>> \o MergeByPos(Tail(a), b)
    ELSE <<b[1]>> \o MergeByPos(a, Tail(b))

AllCommands(c) ==
    MergeByPos(MarkersOf(c, BeginOpen, "begin"), MarkersOf(c, EndOpen, "end"))

\* len(document_begins) > 1
MultipleDocument(c) ==
    LET begins == MarkersOf(c, BeginOpen, "begin")
    IN  Cardinality({k \in 1..Len(begins) : begins[k][3] = Document}) > 1

InStack(stack, env) == \E k \in 1..Len(stack) : stack[k] = env

\* while env_stack and env_stack[-1] != env: pop and report; then pop the match.
\* st = [stack, issues]
RECURSIVE PopTo(_, _)
PopTo(st, env) ==
    IF Len(st.stack) > 0 /\ st.stack[Len(st.stack)] # env
    THEN PopTo([stack |-> SubSeq(st.stack, 1, Len(st.stack) - 1),
                issues |-> Append(st.issues,
                                  <<"Unmatched begin", st.stack[Len(st.stack)]>>)],
               env)
    ELSE [stack |-> SubSeq(st.stack, 1, Len(st.stack) - 1), issues |-> st.issues]

\* a faulty variant of ReplayOne that leaves the stack alone when the name
\* of an \end lies deeper in it
ReplayOneNoPop(st, cmd) ==
    LET env == cmd[3]
        n == Len(st.stack)
    IN  IF cmd[2] = "begin"
        THEN [stack |-> Append(st.stack, env), issues |-> st.issues]
        ELSE IF n = 0
        THEN [stack |-> st.stack,
              issues |-> Append(st.issues, <<"Unmatched end", env>>)]
        ELSE IF st.stack[n] # env
        THEN [stack |-> st.stack,
              issues |-> Append(st.issues,
                                <<"Environment mismatch", st.stack[n], env>>)]
        ELSE [stack |-> SubSeq(st.stack, 1, n - 1), issues |-> st.issues]

\* one iteration of `for pos, cmd_type, env in all_commands`
ReplayOne(st, cmd) ==
    LET env == cmd[3]
        n == Len(st.stack)
    IN  IF cmd[2] = "begin"
        THEN [stack |-> Append(st.stack, env), issues |-> st.issues]
        ELSE IF n = 0
        THEN [stack |-> st.stack,
              issues |-> Append(st.issues, <<"Unmatched end", env>>)]
        ELSE IF st.stack[n] # env
        THEN LET told == [stack |-> st.stack,
                          issues |-> Append(st.issues,
                                       <<"Environment mismatch", st.stack[n], env>>)]
             IN  IF InStack(st.stack, env) THEN PopTo(told, env) ELSE told
        ELSE [stack |-> SubSeq(st.stack, 1, n - 1), issues |-> st.issues]

RECURSIVE ReplayAll(_, _)
ReplayAll(st, cmds) ==
    IF Len(cmds) = 0 THEN st ELSE ReplayAll(ReplayOne(st, cmds[1]), Tail(cmds))

\* a faulty variant of Remaining that reports the frames topmost first
RemainingTopFirst(stack) ==
    [k \in 1..Len(stack) |-> <<"Unmatched environment", stack[Len(stack) + 1 - k]>>]

\* for env in env_stack: issues.append("Unmatched environment ...")
Remaining(stack) == [k \in 1..Len(stack) |-> <<"Unmatched environment", stack[k]>>]

check_environment_balance(c) ==
    LET start == [stack |-> <<>>,
                  issues |-> IF MultipleDocument(c)
                             THEN <<<<"Multiple begin document">>>> ELSE <<>>]
        st == ReplayAll(start, AllCommands(c))
    IN  st.issues \o Remaining(st.stack)

\* the list check_syntax returns
check_syntax(c) ==
    LET cleaned_content == remove_comments_and_verbatim(c)
    IN  check_brace_balance(cleaned_content)
            \o check_environment_balance(cleaned_content)

\* _add_formatting_error(category, error) for each error of a list
Tagged(category, errs) == [k \in 1..Len(errs) |-> <<category, errs[k]>>]

\* what check_syntax appends to self._formatting_errors and self.last_errors
SyntaxFormattingErrors(c) ==
    LET cleaned_content == remove_comments_and_verbatim(c)
    IN  Tagged("syntax", check_brace_balance(cleaned_content))
            \o Tagged("environments", check_environment_balance(cleaned_content))

RECURSIVE Twice(_)
Twice(errs) ==
    IF Len(errs) = 0 THEN <<>> ELSE <<errs[1], errs[1][2]>> \o Twice(Tail(errs))

SyntaxLastErrors(c) ==
    LET cleaned_content == remove_comments_and_verbatim(c)
    IN  Twice(Tagged("syntax", check_brace_balance(cleaned_content)))
            \o Tagged("environments", check_environment_balance(cleaned_content))

(***************************************************************************)
(* SpecSyntax: one check_syntax call; the replay loop of                   *)
(* _check_environment_balance runs one marker per step.  A text is built   *)
(* from fragments; a fragment that is an exempt region (a comment, a       *)
(* verbatim block, a lstlisting block) has two bodies; `other` is `text`   *)
(* with the body of at most one of its regions exchanged, so that the two  *)
(* texts differ only inside one exempt region.                             *)
(***************************************************************************)
EnvA == <<"a">>
EnvB == <<"b">>

SynFragIds == {"{", "}", "nl", "Ba", "Ea", "Bb", "Eb", "Bdoc", "Everb", "pct",
               "comment", "verbatim", "lstlisting"}

Fragment(id, v) ==
    CASE id = "{" -> <<"{">>
      [] id = "}" -> <<"}">>
      [] id = "nl" -> <<NL>>
      [] id = "Ba" -> Begin(EnvA)
      [] id = "Ea" -> End(EnvA)
      [] id = "Bb" -> Begin(EnvB)
      [] id = "Eb" -> End(EnvB)
      [] id = "Bdoc" -> Begin(Document)
      [] id = "Everb" -> End(Verbatim)
      [] id = "pct" -> <<BS, "%">>
      [] id = "comment" ->
            <<"%">> \o (IF v = 1 THEN <<"}">> ELSE Begin(Verbatim))
      [] id = "verbatim" ->
            Begin(Verbatim) \o (IF v = 1 THEN <<"{">> ELSE End(EnvA)) \o End(Verbatim)
      [] id = "lstlisting" ->
            Begin(Lstlisting) \o (IF v = 1 THEN <<"}">> ELSE Begin(Verbatim))
                \o End(Lstlisting)

Regions == {"comment", "verbatim", "lstlisting"}

\* the text of the fragments ids[j..], the k-th with its second body
RECURSIVE Render(_, _, _)
Render(ids, j, k) ==
    IF j > Len(ids) THEN <<>>
    ELSE Fragment(ids[j], IF j = k THEN 2 ELSE 1) \o Render(ids, j + 1, k)

IsBraceIssue(issue) ==
    issue[1] \in {"Unmatched closing braces", "Unmatched opening braces"}

InitSyntax ==
    /\ pc = "check_syntax"
    /\ \E ids \in Seqs(SynFragIds, MaxSynFrags) :
          \E k \in {0} \cup {j \in 1..Len(ids) : ids[j] \in Regions} :
              /\ text = Render(ids, 1, 0)
              /\ other = Render(ids, 1, k)
    /\ content = text
    /\ patterns = DefaultPatterns
    /\ placeholders = <<>>
    /\ issues = <<>>
    /\ env_stack = <<>>
    /\ all_commands = <<>>
    /\ IdleErrors /\ IdleTable

\* check_syntax up to the replay loop of _check_environment_balance
CheckSyntaxBegin ==
    /\ pc = "check_syntax"
    /\ LET cleaned_content == remove_comments_and_verbatim(content)
           brace_issues == check_brace_balance(cleaned_content)
       IN  /\ content' = cleaned_content
           /\ formatting_errors' = formatting_errors \o Tagged("syntax", brace_issues)
           /\ last_errors' = last_errors \o Twice(Tagged("syntax", brace_issues))
           /\ issues' = brace_issues
                          \o (IF MultipleDocument(cleaned_content)
                              THEN <<<<"Multiple begin document">>>> ELSE <<>>)
           /\ all_commands' = AllCommands(cleaned_content)
    /\ env_stack' = <<>>
    /\ pc' = "replay"
    /\ UNCHANGED <<text, patterns, placeholders, command_errors, fault, first,
                   runs, other, tabVars>>

\* one iteration of the replay loop
EnvReplay ==
    /\ pc = "replay"
    /\ Len(all_commands) > 0
    /\ LET st == ReplayOne([stack |-> env_stack, issues |-> issues], all_commands[1])
       IN  /\ env_stack' = st.stack
           /\ issues' = st.issues
    /\ all_commands' = Tail(all_commands)
    /\ UNCHANGED <<pc, text, content, patterns, placeholders, errVars, other, tabVars>>

\* the end of _check_environment_balance and of check_syntax
CheckSyntaxEnd ==
    /\ pc = "replay"
    /\ Len(all_commands) = 0
    /\ LET all == issues \o Remaining(env_stack)
           env_issues == SelectSeq(all, LAMBDA x : ~IsBraceIssue(x))
       IN  /\ issues' = all
           /\ formatting_errors' = formatting_errors \o Tagged("environments", env_issues)
           /\ last_errors' = last_errors \o Tagged("environments", env_issues)
    /\ pc' = "done"
    /\ UNCHANGED <<text, content, patterns, placeholders, command_errors, fault,
                   first, runs, env_stack, all_commands, other, tabVars>>

NextSyntax == CheckSyntaxBegin \/ EnvReplay \/ CheckSyntaxEnd

SpecSyntax == InitSyntax /\ [][NextSyntax]_vars

\* the number of indices <= k of t that hold the character ch
Count(t, k, ch) == Cardinality({i \in 1..k : t[i] = ch})

\* every closing brace has an earlier unmatched opening brace, none is left open
BalancedBraces(t) ==
    /\ \A k \in 1..Len(t) : Count(t, k, "}") <= Count(t, k, "{")
    /\ Count(t, Len(t), "}") = Count(t, Len(t), "{")

\* markers are properly nested when cancelling adjacent \begin{x}\end{x}
\* pairs, again and again, leaves nothing
RECURSIVE Cancel(_)
Cancel(cmds) ==
    LET P == {k \in 1..(Len(cmds) - 1) :
                 /\ cmds[k][2] = "begin"
                 /\ cmds[k + 1][2] = "end"
                 /\ cmds[k][3] = cmds[k + 1][3]}
    IN  IF P = {} THEN cmds
        ELSE LET k == Min(P)
             IN  Cancel(SubSeq(cmds, 1, k - 1) \o SubSeq(cmds, k + 2, Len(cmds)))

ProperlyNested(cmds) == Len(Cancel(cmds)) = 0

DocumentBegins(cmds) ==
    Cardinality({k \in 1..Len(cmds) : cmds[k][2] = "begin" /\ cmds[k][3] = Document})

C7_ExemptRegionsIgnored ==
    pc = "done" => issues = check_syntax(other)

\* the number of opening braces of t that no closing brace matches
RECURSIVE OpenLeft(_, _, _)
OpenLeft(b, i, depth) ==
    IF i > Len(b) THEN depth
    ELSE IF b[i] = "{" THEN OpenLeft(b, i + 1, depth + 1)
    ELSE IF depth > 0 THEN OpenLeft(b, i + 1, depth - 1)
    ELSE OpenLeft(b, i + 1, depth)

\* C8: at most one unmatched-closing diagnostic is emitted, and the
\* unmatched-opening diagnostic reports exactly the number of opening braces
\* of the text that have no matching closer, also after an unmatched closer.
C8_OpeningCountExact ==
    pc = "replay" =>
        LET n == OpenLeft(Braces(content), 1, 0)
            closing == {k \in 1..Len(issues) : issues[k][1] = "Unmatched closing braces"}
            opening == {k \in 1..Len(issues) : issues[k][1] = "Unmatched opening braces"}
        IN  /\ Cardinality(closing) <= 1
            /\ \A k \in opening : issues[k][2] = n
            /\ n > 0 => opening # {}

\* the diagnostics a step has appended
NewIssues == SubSeq(issues', Len(issues) + 1, Len(issues'))

\* the topmost index of the stack that holds env
TopIndex(stack, env) == Max({k \in 1..Len(stack) : stack[k] = env})

\* "Unmatched begin" for the frames above index j, topmost first
FramesAbove(stack, j) ==
    [k \in 1..(Len(stack) - j) |-> <<"Unmatched begin", stack[Len(stack) + 1 - k]>>]

IsEndStep == pc = "replay" /\ Len(all_commands) > 0 /\ all_commands[1][2] = "end"

\* C9, in the wording of the specification: an \end that equals the top frame pops it silently; one whose
\* name is deeper in the stack reports every frame above it and pops the
\* match; one whose name is nowhere on the stack (empty or not) gets an
\* 'unmatched end, no begin' diagnostic and leaves the stack unchanged.
C9_ReplayAsStated ==
    [][IsEndStep =>
        LET env == all_commands[1][3]
            n == Len(env_stack)
        IN  /\ (n > 0 /\ env_stack[n] = env) =>
                  env_stack' = SubSeq(env_stack, 1, n - 1) /\ NewIssues = <<>>
            /\ (n > 0 /\ env_stack[n] # env /\ InStack(env_stack, env)) =>
                  LET j == TopIndex(env_stack, env)
                  IN  /\ env_stack' = SubSeq(env_stack, 1, j - 1)
                      /\ SelectSeq(NewIssues, LAMBDA x : x[1] = "Unmatched begin")
                             = FramesAbove(env_stack, j)
            /\ ~InStack(env_stack, env) =>
                  env_stack' = env_stack /\ NewIssues = <<<<"Unmatched end", env>>>>
    ]_vars

\* C9, as the replay loop behaves: an \end that equals the top frame pops
\* it silently; on a non-empty stack whose top differs from the name, an
\* 'Environment mismatch' diagnostic naming the top and the name comes first;
\* if the name is deeper in the stack the frames above it are reported and
\* the match is popped, otherwise the stack stays; only on an empty stack
\* is the diagnostic 'unmatched end, no begin'.
C9_Replay ==
    [][IsEndStep =>
        LET env == all_commands[1][3]
            n == Len(env_stack)
        IN  /\ (n > 0 /\ env_stack[n] = env) =>
                  env_stack' = SubSeq(env_stack, 1, n - 1) /\ NewIssues = <<>>
            /\ (n > 0 /\ env_stack[n] # env /\ InStack(env_stack, env)) =>
                  LET j == TopIndex(env_stack, env)
                  IN  /\ env_stack' = SubSeq(env_stack, 1, j - 1)
                      /\ NewIssues = <<<<"Environment mismatch", env_stack[n], env>>>>
                                        \o FramesAbove(env_stack, j)
            /\ (n > 0 /\ ~InStack(env_stack, env)) =>
                  /\ env_stack' = env_stack
                  /\ NewIssues = <<<<"Environment mismatch", env_stack[n], env>>>>
            /\ n = 0 =>
                  env_stack' = env_stack /\ NewIssues = <<<<"Unmatched end", env>>>>
    ]_vars

\* an \end whose name lies deeper in the stack has been replayed
C9_Witness ==
    /\ pc = "replay"
    /\ \E k \in 1..Len(issues) : issues[k][1] = "Unmatched begin"

(***************************************************************************)
(* TableAligner: align_table_rows.                                         *)
(***************************************************************************)
Terminator == <<BS, BS>>

\* split_rows: a comment row or a row without '&' is kept whole; a row with
\* '&' is split into its stripped cells (both branches of the source's
\* test on LaTeX commands append part.strip())
SplitRow(row) ==
    IF StartsAt(Strip(row), 1, <<"%">>) THEN <<row>>
    ELSE IF Contains(row, <<"&">>)
    THEN LET parts == Split(row, "&")
         IN  [k \in 1..Len(parts) |-> Strip(parts[k])]
    ELSE <<row>>

\* col_widths, for the split rows
ColWidths(split_rows) ==
    LET table_rows == {k \in 1..Len(split_rows) : Len(split_rows[k]) > 1}
        max_cols == Max({Len(split_rows[k]) : k \in table_rows})
    IN  [i \in 1..max_cols |->
            Max({0} \cup {Len(split_rows[k][i]) :
                              k \in {r \in table_rows : i <= Len(split_rows[r])}})]

\* one row of aligned_rows
AlignRow(row_data, col_widths) ==
    IF Len(row_data) = 1 THEN row_data[1]
    ELSE LET padded == [i \in 1..Len(row_data) |->
                           IF i < Len(col_widths)  \* not the last column
                           THEN LJust(row_data[i], col_widths[i])
                           ELSE row_data[i]]
             ends == \E i \in 1..Len(row_data) : EndsWith(row_data[i], Terminator)
             aligned_cols ==
                 IF ends
                 THEN [i \in 1..Len(padded) |-> RStrip(RStripChars(padded[i], {BS}))]
                 ELSE padded
         IN  Join(aligned_cols, <<" ", "&", " ">>)
                 \o (IF ends THEN <<" ">> \o Terminator ELSE <<>>)

align_table_rows(rs) ==
    LET split_rows == [k \in 1..Len(rs) |-> SplitRow(rs[k])]
    IN  IF \A k \in 1..Len(split_rows) : Len(split_rows[k]) <= 1
        THEN [k \in 1..Len(split_rows) |-> split_rows[k][1]]
        ELSE [k \in 1..Len(split_rows) |->
                 AlignRow(split_rows[k], ColWidths(split_rows))]

(***************************************************************************)
(* SpecTable: one align_table_rows call on a run of rows.                  *)
(***************************************************************************)
Amp == <<" ", "&", " ">>
Terminated(row) == row \o <<" ">> \o Terminator

DataRows == {<<"a">> \o Amp \o <<"b">>,
             <<"c", "c", "c">> \o Amp \o <<"d", "d">>,
             <<"a", "&", "b">>,
             <<"a">> \o Amp \o <<"b", "b">> \o Amp \o <<"c">>,
             <<"a">> \o Terminator \o Amp \o <<"b">>}

RowPool == DataRows \cup {Terminated(r) : r \in DataRows}
               \cup {<<"%", " ", "x">> \o Amp \o <<"y">>,
                     <<BS, "h", "l", "i", "n", "e">>}

InitTable ==
    /\ pc = "align_table_rows"
    /\ rows \in Seqs(RowPool, MaxRows)
    /\ aligned_rows = <<>>
    /\ text = <<>>
    /\ content = <<>>
    /\ patterns = DefaultPatterns
    /\ placeholders = <<>>
    /\ IdleErrors /\ IdleSyntax

AlignTableRows ==
    /\ pc = "align_table_rows"
    /\ aligned_rows' = align_table_rows(rows)
    /\ pc' = "aligned"
    /\ UNCHANGED <<text, content, patterns, placeholders, errVars, synVars, rows>>

NextTable == AlignTableRows

SpecTable == InitTable /\ [][NextTable]_vars

\* the indices of the '&' characters of a row, in order
AmpPositions(row) == SelectSeq([i \in 1..Len(row) |-> IF row[i] = "&" THEN i ELSE 0],
                               LAMBDA i : i > 0)

\* the rows of the run that are split into cells
IsDataRow(row) == Len(SplitRow(row)) > 1

\* a row whose only backslashes are those of a trailing \\ terminator
PlainRow(row) ==
    LET body == IF EndsWith(row, Terminator) THEN SubSeq(row, 1, Len(row) - 2) ELSE row
    IN  \A i \in 1..Len(body) : body[i] # BS

\* C10: with or without a trailing \\ row terminator, the k-th ' & '
\* separator starts at the same offset in every data row of the run that
\* has a k-th separator (stated for the runs whose rows hold no backslash
\* but those of a trailing terminator).
C10_SeparatorsAligned ==
    (pc = "aligned" /\ \A k \in 1..Len(rows) : PlainRow(rows[k])) =>
        \A r1, r2 \in {k \in 1..Len(rows) : IsDataRow(rows[k])} :
            LET p1 == AmpPositions(aligned_rows[r1])
                p2 == AmpPositions(aligned_rows[r2])
            IN  \A k \in 1..Len(p1) : k <= Len(p2) => p1[k] = p2[k]

\* the last cell of a data row, without its row terminator
LastCell(row) ==
    LET cells == SplitRow(row)
    IN  RStrip(RStripChars(cells[Len(cells)], {BS}))

\* the returned row ends with its own last cell, unpadded (a row terminator
\* may follow it)
LastCellUnpadded(row, out) ==
    \/ EndsWith(out, Amp \o LastCell(row))
    \/ EndsWith(out, Amp \o LastCell(row) \o <<" ">> \o Terminator)

\* the returned row has as many cells as the row given
SameCellCount(row, out) == Len(AmpPositions(out)) = Len(AmpPositions(row))

\* C11: in every row align_table_rows returns, the row's own last cell is
\* unpadded, also in a row with fewer cells than the widest row of the run,
\* and the number of cells of each row is unchanged.
C11_LastCellUnpadded ==
    pc = "aligned" =>
        \A k \in {r \in 1..Len(rows) : IsDataRow(rows[r])} :
            /\ LastCellUnpadded(rows[k], aligned_rows[k])
            /\ SameCellCount(rows[k], aligned_rows[k])

\* the second part of C11 alone: no row gains or loses a cell
CellCountKept ==
    pc = "aligned" =>
        \A k \in {r \in 1..Len(rows) : IsDataRow(rows[r])} :
            SameCellCount(rows[k], aligned_rows[k])

(***************************************************************************)
(* FormattingPipeline: the stages of _format_with_error_recovery.          *)
(***************************************************************************)
\* content.replace("\r\n", "\n").replace("\r", "\n")
normalize_line_endings(c) == Replace(Replace(c, <<CR, NL>>, <<NL>>), <<CR>>, <<NL>>)

\* "\n".join(line.rstrip() for line in content.split("\n"))
remove_trailing_whitespace(c) ==
    LET lines == Split(c, NL)
    IN  Join([k \in 1..Len(lines) |-> RStrip(lines[k])], <<NL>>)

\* self.config.get("max_empty_lines", 2) of default_config
max_empty_lines == 2

\* the loop of compress_empty_lines over lines[k..]; the result is result_lines
RECURSIVE CompressLoop(_, _, _)
CompressLoop(lines, k, empty_count) ==
    IF k > Len(lines) THEN <<>>
    ELSE IF Strip(lines[k]) = <<>>
    THEN (IF empty_count + 1 <= max_empty_lines THEN <<<<>>>> ELSE <<>>)
             \o CompressLoop(lines, k + 1, empty_count + 1)
    ELSE <<lines[k]>> \o CompressLoop(lines, k + 1, 0)

compress_empty_lines(c) == Join(CompressLoop(Split(c, NL), 1, 0), <<NL>>)

\* if content and not content.endswith("\n"): content += "\n"
ensure_final_newline(c) ==
    IF Len(c) > 0 /\ c[Len(c)] # NL THEN c \o <<NL>> ELSE c

\* _attempt_partial_formatting: the degraded transform
attempt_partial_formatting(c) ==
    LET lines == Split(normalize_line_endings(c), NL)
    IN  Join([k \in 1..Len(lines) |-> RStrip(lines[k])], <<NL>>) \o <<NL>>

(***************************************************************************)
(* Commands: regular expressions over \name{...}.                          *)
(***************************************************************************)
\* the indices of the backslashes of a text
Backslashes(t) == {i \in 1..Len(t) : t[i] = BS}

\* does the text hold the command \name (followed by anything)
HasCommand(t, name) == \E i \in Backslashes(t) : StartsAt(t, i + 1, name)

\* r"\\([a-zA-Z]+)\s*\{": the end of the match at i
CmdBraceEnd(t, i) ==
    LET a == Skip(t, i + 1, Alpha)
        b == Skip(t, a, Space)
    IN  IF At(t, i) = BS /\ a > i + 1 /\ At(t, b) = "{" THEN b + 1 ELSE 0

\* r"\\\1{"
CmdBraceRepl(t, i, e) == SubSeq(t, i, Skip(t, i + 1, Alpha) - 1) \o <<"{">>

\* the index of the '{' that rf"\\{name}\s*\{" matches from i, 0 if none
ArgOpen(t, i, name) ==
    LET b == Skip(t, i + 1 + Len(name), Space)
    IN  IF At(t, i) = BS /\ StartsAt(t, i + 1, name) /\ At(t, b) = "{" THEN b ELSE 0

\* rf"\\{name}\s*\{\s*([^}]+?)\s*\}": the end of the match at i; the braces
\* must hold at least one character
ArgEnd(t, i, name) ==
    LET b == ArgOpen(t, i, name)
        c == SkipNot(t, b + 1, {"}"})
    IN  IF b > 0 /\ c > b + 1 /\ At(t, c) = "}" THEN c + 1 ELSE 0

\* group 1 of the match: the lazy [^}]+? between the two greedy \s*; an
\* argument of whitespace only leaves its last character to the group
ArgGroup(t, i, e, name) ==
    LET b == ArgOpen(t, i, name)
        inner == SubSeq(t, b + 1, e - 2)
    IN  IF Strip(inner) = <<>> THEN <<inner[Len(inner)]>> ELSE Strip(inner)

Same(g) == g

\* re.sub(rf"\\{name}\s*\{\s*([^}]+?)\s*\}", lambda m: rf"\{name}{F(m.group(1))}", t)
NormalizeArg(t, name, F(_)) ==
    IF ~HasCommand(t, name) THEN t
    ELSE Sub(LAMBDA u, i : ArgEnd(u, i, name),
             LAMBDA u, i, e : <<BS>> \o name \o <<"{">> \o F(ArgGroup(u, i, e, name))
                                  \o <<"}">>,
             t, 1)

\* the substitution for each name of a list, in order
RECURSIVE NormalizeArgs(_, _)
NormalizeArgs(t, names) ==
    IF Len(names) = 0 THEN t
    ELSE NormalizeArgs(NormalizeArg(t, names[1], Same), Tail(names))

\* the name of the list whose pattern matches at i (at most one does, as a
\* name must be followed by \s*\{), 0 if none
AltName(t, i, names) == First({n \in 1..Len(names) : ArgEnd(t, i, names[n]) > 0})

\* re.sub(rf"\\(n1|n2|...)\s*\{\s*([^}]+?)\s*\}",
\*        lambda m: f"\\{m.group(1)}{{{F(m.group(2))}}}", t)
NormalizeAlt(t, names, F(_)) ==
    IF \A n \in 1..Len(names) : ~HasCommand(t, names[n]) THEN t
    ELSE Sub(LAMBDA u, i : IF AltName(u, i, names) = 0 THEN 0
                            ELSE ArgEnd(u, i, names[AltName(u, i, names)]),
             LAMBDA u, i, e :
                 LET name == names[AltName(u, i, names)]
                 IN  <<BS>> \o name \o <<"{">> \o F(ArgGroup(u, i, e, name)) \o <<"}">>,
             t, 1)

\* the keys of `replacements` in normalize_commands, in insertion order
ReplacementCommands ==
    << <<"b", "e", "g", "i", "n">>, <<"e", "n", "d">>,
       <<"u", "s", "e", "p", "a", "c", "k", "a", "g", "e">>,
       <<"d", "o", "c", "u", "m", "e", "n", "t", "c", "l", "a", "s", "s">>,
       <<"t", "e", "x", "t", "b", "f">>, <<"e", "m", "p", "h">>,
       <<"i", "t", "e", "m">> >>

\* (section|subsection|subsubsection|title|author)
SectionCommands ==
    << <<"s", "e", "c", "t", "i", "o", "n">>,
       <<"s", "u", "b", "s", "e", "c", "t", "i", "o", "n">>,
       <<"s", "u", "b", "s", "u", "b", "s", "e", "c", "t", "i", "o", "n">>,
       <<"t", "i", "t", "l", "e">>, <<"a", "u", "t", "h", "o", "r">> >>

\* r"\\([a-zA-Z]+)\s*\{\s+([^}]+?)\s+\}": the end of the match at i
PaddedArgEnd(t, i) ==
    LET b == CmdBraceEnd(t, i) - 1
        c == SkipNot(t, b + 1, {"}"})
        inner == SubSeq(t, b + 1, c - 1)
    IN  IF b > 0 /\ At(t, c) = "}" /\ Len(inner) >= 3
           /\ inner[1] \in Space /\ inner[Len(inner)] \in Space
        THEN c + 1 ELSE 0

\* r"\\\1{\2}"
PaddedArgRepl(t, i, e) ==
    LET b == CmdBraceEnd(t, i) - 1
        inner == SubSeq(t, b + 1, e - 2)
    IN  SubSeq(t, i, Skip(t, i + 1, Alpha) - 1) \o <<"{">>
            \o (IF Strip(inner) = <<>> THEN <<inner[Len(inner) - 1]>> ELSE Strip(inner))
            \o <<"}">>

normalize_commands(c) ==
    LET spaced == Sub(CmdBraceEnd, CmdBraceRepl, c, 1)
        common == NormalizeArgs(spaced, ReplacementCommands)
        titles == NormalizeAlt(common, SectionCommands, Strip)
    IN  Sub(PaddedArgEnd, PaddedArgRepl, titles, 1)

\* does re.search(rf"\\{name}\s+\{", line) match
SearchSpaced(line, name) ==
    \E i \in Backslashes(line) :
        LET a == i + 1 + Len(name)
            b == Skip(line, a, Space)
        IN  StartsAt(line, i + 1, name) /\ b > a /\ At(line, b) = "{"

\* rf"\\{name}\{\s*$" with re.MULTILINE: the end of the match at i, which is
\* the end of the text or the last line end the greedy \s* can stop before
IncompleteEnd(t, i, name) ==
    LET a == i + Len(name) + 2
        b == Skip(t, a, Space)
        stops == {p \in a..b : p = Len(t) + 1 \/ At(t, p) = NL}
    IN  IF At(t, i) = BS /\ StartsAt(t, i + 1, name \o <<"{">>) /\ stops # {}
        THEN Max(stops) ELSE 0

Cite == <<"c", "i", "t", "e">>
Ref == <<"r", "e", "f">>
Textbf == <<"t", "e", "x", "t", "b", "f">>
Emph == <<"e", "m", "p", "h">>
Textit == <<"t", "e", "x", "t", "i", "t">>
UnknownCommands ==
    << <<"u", "n", "k", "n", "o", "w", "n">>, <<"b", "a", "d", "c", "m", "d">>,
       <<"i", "n", "v", "a", "l", "i", "d", "c", "m", "d">> >>

\* re.findall(r"\\(unknown|badcmd|invalidcmd)\{", line): the names, in order
FindUnknown(line) ==
    LET hit(i) == First({n \in 1..Len(UnknownCommands) :
                            At(line, i) = BS
                            /\ StartsAt(line, i + 1, UnknownCommands[n] \o <<"{">>)})
        at == SelectSeq([i \in 1..Len(line) |-> i], LAMBDA i : hit(i) > 0)
    IN  [k \in 1..Len(at) |-> UnknownCommands[hit(at[k])]]

\* the command errors _detect_command_errors adds for line number line_num
LineCommandErrors(line, line_num) ==
    (IF SearchSpaced(line, Textbf) \/ SearchSpaced(line, Emph)
           \/ SearchSpaced(line, Textit)
     THEN <<<<"spacing", <<"Extra spaces in command", line_num>>>>>> ELSE <<>>)
    \o (IF \E i \in Backslashes(line) : IncompleteEnd(line, i, Cite) = Len(line) + 1
        THEN <<<<"incomplete", <<"Incomplete cite command", line_num>>>>>> ELSE <<>>)
    \o [k \in 1..Len(FindUnknown(line)) |->
            <<"unknown", <<"Unknown command", line_num, FindUnknown(line)[k]>>>>]
    \o (IF SearchSpaced(line, Cite)
        THEN <<<<"spacing", <<"Extra spaces in cite command", line_num>>>>>> ELSE <<>>)

RECURSIVE DetectLoop(_, _)
DetectLoop(lines, k) ==
    IF k > Len(lines) THEN <<>>
    ELSE LineCommandErrors(lines[k], k) \o DetectLoop(lines, k + 1)

\* what _detect_command_errors appends to self._command_errors
detect_command_errors(c) ==
    IF Backslashes(c) = {} THEN <<>> ELSE DetectLoop(Split(c, NL), 1)

\* _apply_command_recovery_fixes.  Its second substitution,
\* r"\\(textbf|emph|textit)\s+\{\s*([^}]*?)\s*\}", finds nothing in any text:
\* the first one has removed the whitespace before every '{' that follows a
\* command name
apply_command_recovery_fixes(c) ==
    LET spaced == Sub(CmdBraceEnd, CmdBraceRepl, c, 1)
        Close(t, name) ==
            IF ~HasCommand(t, name) THEN t
            ELSE Sub(LAMBDA u, i : IncompleteEnd(u, i, name),
                     LAMBDA u, i, e : <<BS>> \o name \o <<"{", "}">>, t, 1)
    IN  Close(Close(spaced, Cite), Ref)

\* the text _normalize_commands_with_recovery returns when nothing raises
normalize_commands_with_recovery(c) ==
    apply_command_recovery_fixes(normalize_commands(c))

(***************************************************************************)
(* Bibliography and cross-references.                                      *)
(***************************************************************************)
Bibliography == <<"b", "i", "b", "l", "i", "o", "g", "r", "a", "p", "h", "y">>
Bibliographystyle == Bibliography \o <<"s", "t", "y", "l", "e">>
Bibitem == <<"b", "i", "b", "i", "t", "e", "m">>
EndThebibliography ==
    <<BS, "e", "n", "d", "{", "t", "h", "e">> \o Bibliography \o <<"}">>

format_bibliography_commands(c) ==
    NormalizeArg(NormalizeArg(c, Bibliography, Same), Bibliographystyle, Same)

\* ", ".join(cite.strip() for cite in citation_list.split(","))
format_citation_list(citation_list) ==
    LET cites == Split(citation_list, ",")
    IN  Join([k \in 1..Len(cites) |-> Strip(cites[k])], <<",", " ">>)

\* ["citep", "citet", "citealt", "citealp", "citeauthor", "citeyear"]
NatbibCommands ==
    << Cite \o <<"p">>, Cite \o <<"t">>, Cite \o <<"a", "l", "t">>,
       Cite \o <<"a", "l", "p">>, Cite \o <<"a", "u", "t", "h", "o", "r">>,
       Cite \o <<"y", "e", "a", "r">> >>

RECURSIVE CitationLoop(_, _)
CitationLoop(t, names) ==
    IF Len(names) = 0 THEN t
    ELSE CitationLoop(NormalizeArg(t, names[1], format_citation_list), Tail(names))

format_citation_commands(c) == CitationLoop(c, <<Cite>> \o NatbibCommands)

\* the lookahead (?=\\bibitem|\\end\{thebibliography\}|$): '$' holds at the
\* end of the text and before a newline that ends the text
BibitemStop(t, p) ==
    \/ StartsAt(t, p, <<BS>> \o Bibitem)
    \/ StartsAt(t, p, EndThebibliography)
    \/ p = Len(t) + 1
    \/ (p = Len(t) /\ t[p] = NL)

\* r"\\bibitem\s*\{\s*([^}]+?)\s*\}(\s*.*?)(?=...)" with re.DOTALL: the end
\* of the match at i.  Group 2 is a greedy \s* and a lazy .*?: it stops at the
\* first place from the end of the whitespace on where the lookahead holds
BibitemEnd(t, i) ==
    LET k == ArgEnd(t, i, Bibitem)
        a == Skip(t, k, Space)
        after == {p \in a..(Len(t) + 1) : BibitemStop(t, p)}
    IN  IF k = 0 THEN 0 ELSE Min(after)

\* format_bibitem
BibitemRepl(t, i, e) ==
    LET k == ArgEnd(t, i, Bibitem)
        key == Strip(ArgGroup(t, i, k, Bibitem))
        rest == SubSeq(t, k, e - 1)
    IN  <<BS>> \o Bibitem \o <<"{">> \o key \o <<"}">>
            \o (IF Len(rest) > 0 /\ rest[1] # " " THEN <<" ">> ELSE <<>>) \o rest

format_bibliography_environments(c) ==
    IF ~HasCommand(c, Bibitem) THEN c ELSE Sub(BibitemEnd, BibitemRepl, c, 1)

\* rf"(\n)(\s*\\{name}\{[^}]+\})(\n)": the end of the match at i
BibSpacingEnd(t, i, name) ==
    LET a == Skip(t, i + 1, Space)
        b == a + Len(name) + 2
        c == SkipNot(t, b, {"}"})
    IN  IF At(t, i) = NL /\ At(t, a) = BS /\ StartsAt(t, a + 1, name \o <<"{">>)
           /\ c > b /\ At(t, c) = "}" /\ At(t, c + 1) = NL
        THEN c + 2 ELSE 0

\* re.sub(rf"(\n)(\s*\\{name}\{[^}]+\})(\n)", r"\1\n\2\n\3", t)
BibSpacing(t, name) ==
    IF ~HasCommand(t, name) THEN t
    ELSE Sub(LAMBDA u, i : BibSpacingEnd(u, i, name),
             LAMBDA u, i, e : <<NL, NL>> \o SubSeq(u, i + 1, e - 2) \o <<NL, NL>>,
             t, 1)

add_bibliography_spacing(c) == BibSpacing(BibSpacing(c, Bibliography), Bibliographystyle)

format_bibliography(c) ==
    add_bibliography_spacing(
        format_bibliography_environments(
            format_citation_commands(format_bibliography_commands(c))))

Label == <<"l", "a", "b", "e", "l">>
Pageref == <<"p", "a", "g", "e">> \o Ref
Eqref == <<"e", "q">> \o Ref

format_crossref_commands(c) ==
    NormalizeArg(NormalizeArg(NormalizeArg(NormalizeArg(c, Label, Same), Ref, Same),
                              Pageref, Same), Eqref, Same)

\* rf"\\{cmd}\{[^}]+\}": the end of the match at i
RefEnd(t, i, cmd) ==
    LET b == i + Len(cmd) + 2
        c == SkipNot(t, b, {"}"})
    IN  IF At(t, i) = BS /\ StartsAt(t, i + 1, cmd \o <<"{">>) /\ c > b /\ At(t, c) = "}"
        THEN c + 1 ELSE 0

\* the two substitutions of normalize_crossref_spacing for one command
RefSpacing(t, cmd) ==
    IF ~HasCommand(t, cmd) THEN t
    ELSE LET after ==
                 Sub(LAMBDA u, i : IF RefEnd(u, i, cmd) > 0
                                      /\ At(u, RefEnd(u, i, cmd)) \in Alpha
                                   THEN RefEnd(u, i, cmd) + 1 ELSE 0,
                     LAMBDA u, i, e : SubSeq(u, i, e - 2) \o <<" ", u[e - 1]>>,
                     t, 1)
         IN  Sub(LAMBDA u, i : IF At(u, i) \in Alpha THEN RefEnd(u, i + 1, cmd) ELSE 0,
                 LAMBDA u, i, e : <<u[i], " ">> \o SubSeq(u, i + 1, e - 1),
                 after, 1)

normalize_crossref_spacing(c) == RefSpacing(RefSpacing(RefSpacing(c, Ref), Pageref), Eqref)

format_crossreferences(c) == normalize_crossref_spacing(format_crossref_commands(c))

(***************************************************************************)
(* Generic spacing (fix_spacing) and environment indentation.              *)
(***************************************************************************)
\* rf"([a-zA-Z0-9])\s*{op}\s*([a-zA-Z0-9])": the end of the match at i
OperandsEnd(t, i, op) ==
    LET a == Skip(t, i + 1, Space)
        b == Skip(t, a + 1, Space)
    IN  IF At(t, i) \in AlNum /\ At(t, a) = op /\ At(t, b) \in AlNum THEN b + 1 ELSE 0

\* re.sub(rf"([a-zA-Z0-9])\s*{op}\s*([a-zA-Z0-9])", rf"\1 {op} \2", t)
SpaceOperands(t, op) ==
    Sub(LAMBDA u, i : OperandsEnd(u, i, op),
        LAMBDA u, i, e : <<u[i], " ", op, " ", u[e - 1]>>, t, 1)

\* re.sub(rf"{open}\s+", open, t) for a one-character open
StripAfter(t, open) ==
    Sub(LAMBDA u, i : IF At(u, i) = open /\ Skip(u, i + 1, Space) > i + 1
                       THEN Skip(u, i + 1, Space) ELSE 0,
        LAMBDA u, i, e : <<open>>, t, 1)

\* re.sub(rf"\s+{close}", close, t) for a one-character close
StripBefore(t, close) ==
    Sub(LAMBDA u, i : IF At(u, i) \in Space /\ At(u, Skip(u, i, Space)) = close
                       THEN Skip(u, i, Space) + 1 ELSE 0,
        LAMBDA u, i, e : <<close>>, t, 1)

\* any('=' in original for original in placeholders.values())
HoldsOption(map) == \E k \in 1..Len(map) : Contains(map[k][2], <<"=">>)

fix_spacing(c, pats) ==
    LET st == protect_scientific_content(c, pats)
        operators == SpaceOperands(SpaceOperands(SpaceOperands(st.protected, "="),
                                                 "+"), "*")
        braces == IF HoldsOption(st.placeholders) THEN operators
                  ELSE StripBefore(StripAfter(operators, "{"), "}")
        brackets == StripBefore(StripAfter(braces, "["), "]")
    IN  restore_scientific_content(brackets, st.placeholders)

\* self.config.get("indent_size", 2) of default_config
indent_size == 2

Indent(n) == [k \in 1..(indent_size * n) |-> " "]

\* the loop of format_environments over lines[k..]; the result is formatted_lines
RECURSIVE IndentLoop(_, _, _)
IndentLoop(lines, k, indent_level) ==
    IF k > Len(lines) THEN <<>>
    ELSE LET stripped == Strip(lines[k])
             is_end_command == StartsAt(stripped, 1, EndOpen)
             lower == Max({0, indent_level - 1})
             current_indent == IF stripped = End(Document) THEN 0
                               ELSE IF is_end_command THEN lower
                               ELSE indent_level
         IN  IF stripped = <<>> THEN <<<<>>>> \o IndentLoop(lines, k + 1, indent_level)
             ELSE <<Indent(current_indent) \o stripped>>
                      \o IndentLoop(lines, k + 1,
                                    IF is_end_command THEN lower
                                    ELSE IF StartsAt(stripped, 1, BeginOpen)
                                    THEN indent_level + 1
                                    ELSE indent_level)

format_environments(c) == Join(IndentLoop(Split(c, NL), 1, 0), <<NL>>)

(***************************************************************************)
(* MathFormatter: format_math.                                             *)
(***************************************************************************)
\* re.sub(rf"\s*{op}\s*", rf" {op} ", t) for the operators of a set: the match
\* starts with the whitespace before the operator
LooseEnd(t, i, ops) ==
    LET a == Skip(t, i, Space)
    IN  IF At(t, a) \in ops THEN Skip(t, a + 1, Space) ELSE 0

SpaceLoose(t, ops) ==
    Sub(LAMBDA u, i : LooseEnd(u, i, ops),
        LAMBDA u, i, e : <<" ", u[Skip(u, i, Space)], " ">>, t, 1)

\* re.sub(r"\s+", " ", t)
SqueezeSpaces(t) ==
    Sub(LAMBDA u, i : IF At(u, i) \in Space THEN Skip(u, i, Space) ELSE 0,
        LAMBDA u, i, e : <<" ">>, t, 1)

\* re.sub(r"\s{2,}", " ", t)
SqueezeRuns(t) ==
    Sub(LAMBDA u, i : IF At(u, i) \in Space /\ Skip(u, i, Space) >= i + 2
                       THEN Skip(u, i, Space) ELSE 0,
        LAMBDA u, i, e : <<" ">>, t, 1)

\* one line of the plain-text branch (no '$' in the text)
PlainLine(line) ==
    IF Strip(line) = <<>> THEN line
    ELSE LET content_part == LStrip(line)
             leading_whitespace == SubSeq(line, 1, Len(line) - Len(content_part))
         IN  leading_whitespace
                 \o Strip(SqueezeSpaces(SpaceLoose(content_part, {"+", "-", "="})))

\* rf"(?<![\w_\^}])\s*{op}\s*(?![\w_{])": the end of the match at i.  The
\* second \s* is greedy; when the character after it fails the lookahead
\* it gives one whitespace character back, which passes
StandaloneEnd(t, i, op) ==
    LET a == Skip(t, i, Space)
        b == Skip(t, a + 1, Space)
    IN  IF At(t, i - 1) \in Word \cup {"^", "}"} \/ At(t, a) # op THEN 0
        ELSE IF At(t, b) \notin Word \cup {"{"} THEN b
        ELSE IF b > a + 1 THEN b - 1
        ELSE 0

SpaceStandalone(t, op) ==
    Sub(LAMBDA u, i : StandaloneEnd(u, i, op),
        LAMBDA u, i, e : <<" ", op, " ">>, t, 1)

\* re.sub(rf"([a-zA-Z]){op}([a-zA-Z])", rf"\1 {op} \2", t)
SpaceLetters(t, op) ==
    Sub(LAMBDA u, i : IF At(u, i) \in Alpha /\ At(u, i + 1) = op /\ At(u, i + 2) \in Alpha
                       THEN i + 3 ELSE 0,
        LAMBDA u, i, e : <<u[i], " ", op, " ", u[i + 2]>>, t, 1)

\* r"(\{[^}]*\})": the end of the brace group at i
BraceGroupEnd(t, i) ==
    LET c == SkipNot(t, i + 1, {"}"})
    IN  IF At(t, i) = "{" /\ At(t, c) = "}" THEN c + 1 ELSE 0

\* parts = re.split(r"(\{[^}]*\})", t); F on the parts outside the groups;
\* "".join(parts).  spans[k..] are the groups from index pos on
RECURSIVE OutsideLoop(_, _, _, _, _)
OutsideLoop(F(_), t, spans, k, pos) ==
    IF k > Len(spans) THEN F(From(t, pos))
    ELSE F(SubSeq(t, pos, spans[k][1] - 1))
             \o SubSeq(t, spans[k][1], spans[k][2] - 1)
             \o OutsideLoop(F, t, spans, k + 1, spans[k][2])

OutsideBraces(F(_), t) == OutsideLoop(F, t, FindIter(BraceGroupEnd, t, 1), 1, 1)

\* the six substitutions of replace_operators_carefully on one part
Carefully(part) ==
    SpaceLetters(
        SpaceLetters(
            SpaceLetters(
                SpaceStandalone(SpaceStandalone(SpaceStandalone(part, "="), "+"), "-"),
                "+"),
            "="),
        "-")

\* the three substitutions of replace_operators_outside_braces on one part
Loosely(part) == SpaceLoose(SpaceLoose(SpaceLoose(part, {"="}), {"+"}), {"-"})

\* re.sub(rf"\s+{mark}\s*", mark, t) for '_' and '^'
TightenScript(t, mark) ==
    Sub(LAMBDA u, i : IF At(u, i) \in Space /\ At(u, Skip(u, i, Space)) = mark
                       THEN Skip(u, Skip(u, i, Space) + 1, Space) ELSE 0,
        LAMBDA u, i, e : <<mark>>, t, 1)

\* r"\s*\{\s*([^}]*?)\s*\}" from index p: <<end, start of the group, end of
\* the group>>, <<0, 0, 0>> if it does not match
BracedAt(t, p) ==
    LET b == Skip(t, p, Space)
        c == SkipNot(t, b + 1, {"}"})
        inner == SubSeq(t, b + 1, c - 1)
        lead == Len(inner) - Len(LStrip(inner))
    IN  IF At(t, b) = "{" /\ At(t, c) = "}"
        THEN <<c + 1, b + 1 + lead, b + 1 + lead + Len(Strip(inner))>>
        ELSE <<0, 0, 0>>

FracName == <<"f", "r", "a", "c">>
SumName == <<"s", "u", "m">>
IntName == <<"i", "n", "t">>

\* r"\\frac\s*\{\s*([^}]*?)\s*\}\s*\{\s*([^}]*?)\s*\}" -> r"\\frac{\1}{\2}"
TightenFrac(t) ==
    IF ~HasCommand(t, FracName) THEN t
    ELSE LET one(u, i) == IF At(u, i) = BS /\ StartsAt(u, i + 1, FracName)
                          THEN BracedAt(u, i + 5) ELSE <<0, 0, 0>>
             two(u, i) == IF one(u, i)[1] > 0 THEN BracedAt(u, one(u, i)[1])
                          ELSE <<0, 0, 0>>
         IN  Sub(LAMBDA u, i : two(u, i)[1],
                 LAMBDA u, i, e :
                     <<BS>> \o FracName \o <<"{">> \o SubSeq(u, one(u, i)[2], one(u, i)[3] - 1)
                         \o <<"}", "{">> \o SubSeq(u, two(u, i)[2], two(u, i)[3] - 1)
                         \o <<"}">>,
                 t, 1)

\* rf"\\{name}\s*_\s*\{\s*([^}]*?)\s*\}\s*\^\s*\{\s*([^}]*?)\s*\}"
\*     -> rf"\\{name}_{\1}^{\2}"
TightenLimits(t, name) ==
    IF ~HasCommand(t, name) THEN t
    ELSE LET sub(u, i) == Skip(u, i + 1 + Len(name), Space)
             one(u, i) == IF At(u, i) = BS /\ StartsAt(u, i + 1, name)
                             /\ At(u, sub(u, i)) = "_"
                          THEN BracedAt(u, sub(u, i) + 1) ELSE <<0, 0, 0>>
             sup(u, i) == Skip(u, one(u, i)[1], Space)
             two(u, i) == IF one(u, i)[1] > 0 /\ At(u, sup(u, i)) = "^"
                          THEN BracedAt(u, sup(u, i) + 1) ELSE <<0, 0, 0>>
         IN  Sub(LAMBDA u, i : two(u, i)[1],
                 LAMBDA u, i, e :
                     <<BS>> \o name \o <<"_", "{">>
                         \o SubSeq(u, one(u, i)[2], one(u, i)[3] - 1)
                         \o <<"}", "^", "{">> \o SubSeq(u, two(u, i)[2], two(u, i)[3] - 1)
                         \o <<"}">>,
                 t, 1)

\* the substitutions fix_math_content, fix_display_math_content and
\* fix_math_env_content share, after the operators
Tighten(t) ==
    TightenLimits(
        TightenLimits(TightenFrac(TightenScript(TightenScript(t, "_"), "^")), SumName),
        IntName)

fix_math_content(math_content) ==
    <<"$">> \o Strip(SqueezeRuns(Tighten(OutsideBraces(Carefully, math_content))))
        \o <<"$">>

fix_display_math_content(math_content) ==
    <<"$", "$">> \o Strip(SqueezeRuns(Tighten(OutsideBraces(Loosely, math_content))))
        \o <<"$", "$">>

\* r"\$([^$]+)\$": the end of the match at i
InlineMathEnd(t, i) ==
    LET c == SkipNot(t, i + 1, {"$"})
    IN  IF At(t, i) = "$" /\ c > i + 1 /\ At(t, c) = "$" THEN c + 1 ELSE 0

\* r"\$\$([^$]+)\$\$": the end of the match at i
DisplayMathEnd(t, i) ==
    LET c == SkipNot(t, i + 2, {"$"})
    IN  IF At(t, i) = "$" /\ At(t, i + 1) = "$" /\ c > i + 2 /\ At(t, c) = "$"
           /\ At(t, c + 1) = "$"
        THEN c + 2 ELSE 0

\* math_envs
MathEnvs ==
    << <<"e", "q", "u", "a", "t", "i", "o", "n">>, <<"a", "l", "i", "g", "n">>,
       <<"g", "a", "t", "h", "e", "r">>, <<"m", "u", "l", "t", "l", "i", "n", "e">>,
       <<"s", "p", "l", "i", "t">>, <<"a", "l", "i", "g", "n", "a", "t">> >>

\* fix_math_env_content for the match u[i..e-1] of the environment env
fix_math_env_content(u, i, e, env) ==
    LET group0 == SubSeq(u, i, e - 1)
        group1 == SubSeq(u, i + Len(Begin(env)), e - 1 - Len(End(env)))
        env_content ==
            SqueezeRuns(SpaceLoose(Tighten(OutsideBraces(Loosely, group1)), {"&"}))
    IN  IF group1 = <<>> THEN group0  \* an empty body stays empty
        ELSE Replace(group0, group1, env_content)

RECURSIVE MathEnvLoop(_, _)
MathEnvLoop(t, envs) ==
    IF Len(envs) = 0 THEN t
    ELSE MathEnvLoop(
             IF ~Contains(t, Begin(envs[1])) THEN t
             ELSE Sub(LAMBDA u, i : BlockEnd(u, i, envs[1]),
                      LAMBDA u, i, e : fix_math_env_content(u, i, e, envs[1]), t, 1),
             Tail(envs))

format_math(c) ==
    LET before == Sub(LAMBDA u, i : IF At(u, i) \in Alpha /\ At(u, i + 1) = "$"
                                     THEN i + 2 ELSE 0,
                      LAMBDA u, i, e : <<u[i], " ", "$">>, c, 1)
        after == Sub(LAMBDA u, i : IF At(u, i) = "$" /\ At(u, i + 1) \in Alpha
                                    THEN i + 2 ELSE 0,
                     LAMBDA u, i, e : <<"$", " ", u[i + 1]>>, before, 1)
        delimited == StripBefore(StripAfter(after, "$"), "$")
        lines == Split(delimited, NL)
        plain == IF Contains(delimited, <<"$">>) THEN delimited
                 ELSE Join([k \in 1..Len(lines) |-> PlainLine(lines[k])], <<NL>>)
        inline == Sub(InlineMathEnd,
                      LAMBDA u, i, e : fix_math_content(SubSeq(u, i + 1, e - 2)),
                      plain, 1)
        display == Sub(DisplayMathEnd,
                       LAMBDA u, i, e : fix_display_math_content(SubSeq(u, i + 2, e - 3)),
                       inline, 1)
    IN  MathEnvLoop(display, MathEnvs)

(***************************************************************************)
(* PackageSorter: sort_packages.                                           *)
(***************************************************************************)
\* the grave accent, a character no TLA+ string can hold
Grave == "grave"

\* the characters of the texts, in code point order
Ascii ==
    <<"\t", "\n", "\r",
       " ", "!", "\"", "#", "$", "%", "&", "'", "(", ")", "*", "+",
       ",", "-", ".", "/", "0", "1", "2", "3", "4", "5", "6", "7",
       "8", "9", ":", ";", "<", "=", ">", "?", "@", "A", "B", "C",
       "D", "E", "F", "G", "H", "I", "J", "K", "L", "M", "N", "O",
       "P", "Q", "R", "S", "T", "U", "V", "W", "X", "Y", "Z", "[",
       "\\", "]", "^", "_", Grave, "a", "b", "c", "d", "e", "f", "g",
       "h", "i", "j", "k", "l", "m", "n", "o", "p", "q", "r", "s",
       "t", "u", "v", "w", "x", "y", "z", "{", "|", "}", "~">>

\* the rank of a character in the order of its code points
Ord(ch) == CHOOSE k \in 1..Len(Ascii) : Ascii[k] = ch

\* a < b for Python strings
StrLess(a, b) ==
    LET d == First({k \in 1..Min({Len(a), Len(b)}) : a[k] # b[k]})
    IN  IF d = 0 THEN Len(a) < Len(b) ELSE Ord(a[d]) < Ord(b[d])

Usepackage == <<"u", "s", "e", "p", "a", "c", "k", "a", "g", "e">>

\* package_pattern, r"\\usepackage(?:\[[^\]]*\])?\{([^}]+)\}", at index i:
\* <<end of the match, start of group 1>>, <<0, 0>> if it does not match
PackageAt(t, i) ==
    LET p == i + 1 + Len(Usepackage)
        c == SkipNot(t, p + 1, {"]"})
        q == IF At(t, p) = "[" /\ At(t, c) = "]" THEN c + 1 ELSE p
        d == SkipNot(t, q + 1, {"}"})
    IN  IF At(t, i) = BS /\ StartsAt(t, i + 1, Usepackage) /\ At(t, q) = "{"
           /\ d > q + 1 /\ At(t, d) = "}"
        THEN <<d + 1, q + 1>> ELSE <<0, 0>>

\* re.search(package_pattern, line): the index of the match, 0 if none
PackageSearch(line) == First({i \in Backslashes(line) : PackageAt(line, i)[1] > 0})

\* get_package_name
get_package_name(x) ==
    LET i == PackageSearch(x)
    IN  IF i = 0 THEN <<>> ELSE SubSeq(x, PackageAt(x, i)[2], PackageAt(x, i)[1] - 2)

\* the line indices (from 1) of package_positions: the package lines before
\* the first line that holds \begin{document}
PackagePositions(lines) ==
    LET doc == First({k \in 1..Len(lines) : Contains(lines[k], Begin(Document))})
        preamble == IF doc = 0 THEN Len(lines) ELSE doc - 1
    IN  {k \in 1..preamble : PackageSearch(Strip(lines[k])) > 0}

\* packages.sort(key=get_package_name): a stable sort; x goes behind the
\* sorted entries whose name is not greater
RECURSIVE InsertPackage(_, _)
InsertPackage(sorted, x) ==
    IF Len(sorted) = 0 THEN <<x>>
    ELSE IF StrLess(get_package_name(x), get_package_name(sorted[1]))
    THEN <<x>> \o sorted
    ELSE <<sorted[1]>> \o InsertPackage(Tail(sorted), x)

RECURSIVE SortPackages(_, _)
SortPackages(packages, k) ==
    IF k = 0 THEN <<>> ELSE InsertPackage(SortPackages(packages, k - 1), packages[k])

\* the loop that builds result_lines, for lines[k..].  At insert_pos, the
\* first package position, result_lines holds the lines before it
RECURSIVE PackageLoop(_, _, _, _)
PackageLoop(lines, positions, sorted, k) ==
    IF k > Len(lines) THEN <<>>
    ELSE IF k \notin positions
    THEN <<lines[k]>> \o PackageLoop(lines, positions, sorted, k + 1)
    ELSE IF k = Min(positions)
    THEN LET next_line_idx == First({j \in (k + 1)..Len(lines) : j \notin positions})
         IN  (IF k > 1 /\ Strip(lines[k - 1]) # <<>> THEN <<<<>>>> ELSE <<>>)
                 \o sorted
                 \o (IF next_line_idx > 0 /\ Strip(lines[next_line_idx]) # <<>>
                     THEN <<<<>>>> ELSE <<>>)
                 \o PackageLoop(lines, positions, sorted, k + 1)
    ELSE PackageLoop(lines, positions, sorted, k + 1)

\* a faulty variant of sort_packages that gathers the package lines at the
\* first package position without sorting them
sort_packages_unsorted(c) ==
    IF ~HasCommand(c, Usepackage) THEN c
    ELSE LET lines == Split(c, NL)
             positions == PackagePositions(lines)
             at == SelectSeq([k \in 1..Len(lines) |-> k], LAMBDA k : k \in positions)
             packages == [k \in 1..Len(at) |-> Strip(lines[at[k]])]
         IN  IF positions = {} THEN c
             ELSE Join(PackageLoop(lines, positions, packages, 1), <<NL>>)

sort_packages(c) ==
    IF ~HasCommand(c, Usepackage) THEN c
    ELSE LET lines == Split(c, NL)
             positions == PackagePositions(lines)
             at == SelectSeq([k \in 1..Len(lines) |-> k], LAMBDA k : k \in positions)
             packages == [k \in 1..Len(at) |-> Strip(lines[at[k]])]
         IN  IF positions = {} THEN c
             ELSE Join(PackageLoop(lines, positions,
                                   SortPackages(packages, Len(packages)), 1),
                       <<NL>>)

(***************************************************************************)
(* TableAligner: align_tables.                                             *)
(***************************************************************************)
Tabular == <<"t", "a", "b", "u", "l", "a", "r">>
Array == <<"a", "r", "r", "a", "y">>

OpensTable(line) == Contains(line, Begin(Tabular)) \/ Contains(line, Begin(Array))
ClosesTable(line) == Contains(line, End(Tabular)) \/ Contains(line, End(Array))

\* self.align_table_rows(table_rows) when table_rows is not empty
Flush(table_rows) == IF Len(table_rows) = 0 THEN <<>> ELSE align_table_rows(table_rows)

\* the inner loop of align_tables over lines[k..j-1], the lines of one table
RECURSIVE TableRowsLoop(_, _, _, _)
TableRowsLoop(lines, k, j, table_rows) ==
    IF k >= j THEN Flush(table_rows)
    ELSE IF Contains(lines[k], <<"&">>)
    THEN TableRowsLoop(lines, k + 1, j, Append(table_rows, Strip(lines[k])))
    ELSE Flush(table_rows) \o <<lines[k]>> \o TableRowsLoop(lines, k + 1, j, <<>>)

\* the outer loop of align_tables over lines[i..]
RECURSIVE TableLoop(_, _)
TableLoop(lines, i) ==
    IF i > Len(lines) THEN <<>>
    ELSE IF OpensTable(lines[i])
    THEN LET close == First({k \in (i + 1)..Len(lines) : ClosesTable(lines[k])})
             j == IF close = 0 THEN Len(lines) + 1 ELSE close
         IN  <<lines[i]>> \o TableRowsLoop(lines, i + 1, j, <<>>)
                 \o (IF j <= Len(lines) THEN <<lines[j]>> ELSE <<>>)
                 \o TableLoop(lines, j + 1)
    ELSE <<lines[i]>> \o TableLoop(lines, i + 1)

align_tables(c) ==
    IF ~HasCommand(c, <<"b", "e", "g", "i", "n">>) THEN c
    ELSE Join(TableLoop(Split(c, NL), 1), <<NL>>)

(***************************************************************************)
(* QuoteNormalizer: normalize_quotes.                                      *)
(***************************************************************************)
\* r'(?<!\\)"([^"]*)"' -> r"``\1''"
DoubleQuotes(t) ==
    Sub(LAMBDA u, i : LET c == SkipNot(u, i + 1, {"\""})
                      IN  IF At(u, i) = "\"" /\ At(u, i - 1) # BS /\ At(u, c) = "\""
                          THEN c + 1 ELSE 0,
        LAMBDA u, i, e : <<Grave, Grave>> \o SubSeq(u, i + 1, e - 2) \o <<"'", "'">>,
        t, 1)

\* r"(?<!\\)(?<!\w)'([^']*)'(?!\w)" -> r"`\1'"
SingleQuotes(t) ==
    Sub(LAMBDA u, i : LET c == SkipNot(u, i + 1, {"'"})
                      IN  IF At(u, i) = "'" /\ At(u, i - 1) \notin Word \cup {BS}
                             /\ At(u, c) = "'" /\ At(u, c + 1) \notin Word
                          THEN c + 1 ELSE 0,
        LAMBDA u, i, e : <<Grave>> \o SubSeq(u, i + 1, e - 2) \o <<"'">>,
        t, 1)

process_non_math_quotes(t) == SingleQuotes(DoubleQuotes(t))

\* r"(\$[^$]*\$|\$\$[^$]*\$\$|\\begin\{verbatim\}.*?\\end\{verbatim\})" with
\* re.DOTALL: the end of the match at i.  Where the second alternative
\* matches, the first one, which is tried first, matches "$$"
QuoteExemptEnd(t, i) ==
    IF At(t, i) = "$"
    THEN LET c == SkipNot(t, i + 1, {"$"}) IN IF At(t, c) = "$" THEN c + 1 ELSE 0
    ELSE BlockEnd(t, i, Verbatim)

normalize_quotes(c) ==
    IF \A k \in 1..Len(c) : c[k] \notin {"\"", "'"} THEN c
    ELSE OutsideLoop(process_non_math_quotes, c, FindIter(QuoteExemptEnd, c, 1), 1, 1)

(***************************************************************************)
(* FormattingPipeline: format_content and _format_with_error_recovery.     *)
(* No plugin is registered after construction, so the three _apply_plugins *)
(* calls return the text they are given.                                   *)
(***************************************************************************)
\* the stages of _format_with_error_recovery, by the category their fault
\* handler records, in the order they run
Stages ==
    <<"line_endings", "trailing_whitespace", "empty_lines", "commands",
      "bibliography", "crossreferences", "spacing", "environments", "math",
      "packages", "empty_lines_final", "tables", "quotes", "final_newline">>

StageIndex(stage) == CHOOSE k \in 1..Len(Stages) : Stages[k] = stage

\* the position after a stage: the next stage, or the restore step
AfterStage(stage) ==
    IF StageIndex(stage) = Len(Stages) THEN "restore" ELSE Stages[StageIndex(stage) + 1]

\* the text a stage returns for the text c
StageResult(stage, c, pats) ==
    CASE stage = "line_endings" -> normalize_line_endings(c)
      [] stage = "trailing_whitespace" -> remove_trailing_whitespace(c)
      [] stage = "empty_lines" -> compress_empty_lines(c)
      [] stage = "commands" -> normalize_commands_with_recovery(c)
      [] stage = "bibliography" -> format_bibliography(c)
      [] stage = "crossreferences" -> format_crossreferences(c)
      [] stage = "spacing" -> fix_spacing(c, pats)
      [] stage = "environments" -> format_environments(c)
      [] stage = "math" -> format_math(c)
      [] stage = "packages" -> sort_packages(c)
      [] stage = "empty_lines_final" -> compress_empty_lines(c)
      [] stage = "tables" -> align_tables(c)
      [] stage = "quotes" -> normalize_quotes(c)
      [] stage = "final_newline" -> ensure_final_newline(c)

\* str(e) of the exception a faulting function raises
Raised == "fault"

(***************************************************************************)
(* SpecFormat: format_content on a text, then on the text it returned.     *)
(* SpecFault: format_content on a text, where at most one function raises. *)
(***************************************************************************)
MaxFormatFrags == 3   \* fragments per text given to format_content
MaxFaultFrags == 3    \* the same, for the runs in which a function raises

FormatFrags ==
    {<<"a">>, <<" ">>, <<NL>>, <<CR, NL>>, <<"$">>, <<"a", "+", "a", "+", "a">>,
     <<BS>> \o Bibliography \o <<"{", "r", "}">>, <<BS, "x">>, <<"{">>, <<"}">>,
     <<"[", "a", "=">>, <<"1", "-", "2">>, <<"]">>}

InitFormat ==
    /\ pc = "format_content"
    /\ text \in Texts(FormatFrags, MaxFormatFrags)
    /\ content = text
    /\ patterns = DefaultPatterns
    /\ placeholders = <<>>
    /\ IdleErrors /\ IdleSyntax /\ IdleTable

InitFault ==
    /\ pc = "format_content"
    /\ text \in Texts(FormatFrags, MaxFaultFrags)
    /\ content = text
    /\ patterns = DefaultPatterns
    /\ placeholders = <<>>
    /\ IdleErrors /\ IdleSyntax /\ IdleTable

\* format_content up to the call of _format_with_error_recovery
FormatBegin ==
    /\ pc = "format_content"
    /\ last_errors' = <<>>
    /\ formatting_errors' = <<>>
    /\ command_errors' = <<>>
    /\ LET st == protect_scientific_content(content, patterns)
       IN  /\ content' = st.protected
           /\ placeholders' = st.placeholders
    /\ pc' = "check_syntax"
    /\ UNCHANGED <<text, patterns, fault, first, runs, synVars, tabVars>>

\* self.check_syntax(content); self._apply_plugins(content, "pre_format")
FormatCheckSyntax ==
    /\ pc = "check_syntax"
    /\ formatting_errors' = formatting_errors \o SyntaxFormattingErrors(content)
    /\ last_errors' = last_errors \o SyntaxLastErrors(content)
    /\ pc' = Stages[1]
    /\ UNCHANGED <<text, content, patterns, placeholders, command_errors, fault,
                   first, runs, synVars, tabVars>>

\* one try block of _format_with_error_recovery whose call returns
Stage(stage) ==
    /\ pc = stage
    /\ content' = StageResult(stage, content, patterns)
    /\ command_errors' = IF stage = "commands"
                         THEN command_errors \o detect_command_errors(content)
                         ELSE command_errors
    /\ other' = IF fault = "none" THEN other
                ELSE StageResult(stage, other, patterns)
    /\ pc' = AfterStage(stage)
    /\ UNCHANGED <<text, patterns, placeholders, formatting_errors, last_errors,
                   fault, first, runs, issues, env_stack, all_commands, tabVars>>

NormalizeLineEndings == Stage("line_endings")
RemoveTrailingWhitespace == Stage("trailing_whitespace")
CompressEmptyLines == Stage("empty_lines")
NormalizeCommands == Stage("commands")
FormatBibliography == Stage("bibliography")
FormatCrossreferences == Stage("crossreferences")
FixSpacing == Stage("spacing")
FormatEnvironments == Stage("environments")
FormatMath == Stage("math")
SortPackagesStage == Stage("packages")
CompressEmptyLinesFinal == Stage("empty_lines_final")
AlignTables == Stage("tables")
NormalizeQuotes == Stage("quotes")
EnsureFinalNewline == Stage("final_newline")

\* the two _apply_plugins calls, _restore_scientific_content and the return
FormatEnd ==
    /\ pc = "restore"
    /\ content' = restore_scientific_content(content, placeholders)
    /\ other' = IF fault = "none" THEN other
                ELSE restore_scientific_content(other, placeholders)
    /\ runs' = runs + 1
    /\ pc' = "done"
    /\ UNCHANGED <<text, patterns, placeholders, formatting_errors, command_errors,
                   last_errors, fault, first, issues, env_stack, all_commands, tabVars>>

\* format_content is called again, with the text it has returned
FormatAgain ==
    /\ pc = "done"
    /\ runs = 1
    /\ first' = content
    /\ pc' = "format_content"
    /\ UNCHANGED <<text, content, patterns, placeholders, formatting_errors,
                   command_errors, last_errors, fault, runs, synVars, tabVars>>

StagesNext ==
    \/ FormatBegin \/ FormatCheckSyntax
    \/ NormalizeLineEndings \/ RemoveTrailingWhitespace \/ CompressEmptyLines
    \/ NormalizeCommands \/ FormatBibliography \/ FormatCrossreferences
    \/ FixSpacing \/ FormatEnvironments \/ FormatMath \/ SortPackagesStage
    \/ CompressEmptyLinesFinal \/ AlignTables \/ NormalizeQuotes
    \/ EnsureFinalNewline \/ FormatEnd

NextFormat == StagesNext \/ FormatAgain

SpecFormat == InitFormat /\ [][NextFormat]_vars

\* the call of a stage raises: the except clause of its try block records the
\* category and the text stays as it was.  In the stage "commands" this is
\* _detect_command_errors raising, the only call outside the inner try
StageFaults ==
    \E stage \in {Stages[k] : k \in 1..Len(Stages)} :
        /\ pc = stage
        /\ fault = "none"
        /\ fault' = stage
        /\ formatting_errors' = Append(formatting_errors, <<stage, Raised>>)
        /\ last_errors' = Append(last_errors, <<stage, Raised>>)
        /\ other' = content
        /\ pc' = AfterStage(stage)
        /\ UNCHANGED <<text, content, patterns, placeholders, command_errors, first,
                       runs, issues, env_stack, all_commands, tabVars>>

\* normalize_commands raises inside _normalize_commands_with_recovery: the
\* inner except clause records a command error and returns
\* _apply_command_recovery_fixes(content)
NormalizeCommandsFaults ==
    /\ pc = "commands"
    /\ fault = "none"
    /\ fault' = "normalize_commands"
    /\ command_errors' = (command_errors \o detect_command_errors(content))
                             \o <<<<"normalize_commands", Raised>>>>
    /\ other' = content
    /\ content' = apply_command_recovery_fixes(content)
    /\ pc' = AfterStage("commands")
    /\ UNCHANGED <<text, patterns, placeholders, formatting_errors, last_errors,
                   first, runs, issues, env_stack, all_commands, tabVars>>

\* a call outside the try blocks raises (check_syntax at its entry, or
\* _restore_scientific_content): the except clause of format_content returns
\* _attempt_partial_formatting(content) for the text format_content was given
EscapingFaults ==
    /\ pc \in {"check_syntax", "restore"}
    /\ fault = "none"
    /\ fault' = IF pc = "check_syntax" THEN "check_syntax"
                ELSE "restore_scientific_content"
    /\ last_errors' = Append(last_errors, Raised)
    /\ content' = attempt_partial_formatting(text)
    /\ runs' = runs + 1
    /\ pc' = "done"
    /\ UNCHANGED <<text, patterns, placeholders, formatting_errors, command_errors,
                   first, synVars, tabVars>>

NextFault == StagesNext \/ StageFaults \/ NormalizeCommandsFaults \/ EscapingFaults

SpecFault == InitFault /\ [][NextFault]_vars

\* the substring of the input that placeholder k stands for: its stored
\* original, with the tokens of earlier placeholders inside it expanded
RECURSIVE Expand(_, _, _)
Expand(t, map, j) ==
    IF j = 0 THEN t ELSE Expand(Replace(t, map[j][1], map[j][2]), map, j - 1)

ProtectedSpan(map, k) == Expand(map[k][2], map, k - 1)

TokenPrefix == <<"_", "_", "P", "R", "O", "T", "E", "C", "T", "_">>

\* C2: every substring the protect step replaced by a placeholder is in the
\* text format_content returns, unchanged, and the returned text holds no
\* placeholder token.
C2_ProtectedSpansSurvive ==
    pc = "done" =>
        /\ \A k \in 1..Len(placeholders) :
               Contains(content, ProtectedSpan(placeholders, k))
        /\ ~Contains(content, TokenPrefix)

\* the protect/restore round trip of a text leaves no residual placeholder
RoundTripClean(t, pats) ==
    LET st == protect_scientific_content(t, pats)
        back == restore_scientific_content(st.protected, st.placeholders)
    IN  back = t /\ ~Contains(back, TokenPrefix)

\* the same statement as C2, for the inputs whose round trip is clean
ProtectedSpansSurviveWhenClean ==
    pc = "done" /\ runs = 1 /\ RoundTripClean(text, patterns) =>
        /\ \A k \in 1..Len(placeholders) :
               Contains(content, ProtectedSpan(placeholders, k))
        /\ ~Contains(content, TokenPrefix)

\* C3: idempotence: for a well-formed text (check_syntax finds nothing)
\* whose protect/restore round trip is clean, formatting the formatted text
\* returns it unchanged.
C3_Idempotent ==
    pc = "done" /\ runs = 2 /\ check_syntax(text) = <<>>
                /\ RoundTripClean(text, patterns)
        => content = first

EscapingFault == fault \in {"check_syntax", "restore_scientific_content"}

\* C4: format_content returns (never raises), returns a non-empty text for a
\* non-empty input, whitespace-only inputs included, and when a fault escapes
\* the per-stage isolation it returns the degraded transform of the input.
C4_NeverEmpty ==
    pc = "done" =>
        /\ Len(text) > 0 => Len(content) > 0
        /\ EscapingFault => content = attempt_partial_formatting(text)

\* the stage in which the fault of this run happened
FaultStage == IF fault = "normalize_commands" THEN "commands" ELSE fault

StageFault == fault \notin {"none", "check_syntax", "restore_scientific_content"}

\* C5: per-stage fault isolation: when exactly one stage faults, command
\* normalization included, a diagnostic tagged with the stage's name is
\* recorded, the next stage gets the text as it was before the faulting
\* stage, and the returned text is the one of the run without that stage.
C5_FaultIsolation ==
    StageFault =>
        /\ \E k \in 1..Len(formatting_errors) :
               formatting_errors[k] = <<FaultStage, Raised>>
        /\ content = other

(***************************************************************************)
(* SpecTables: one align_tables call on a tabular or array block.          *)
(***************************************************************************)
MaxBlockLines == 3   \* lines between the \begin and the \end of the block

BlockLines ==
    {<<"a">> \o Amp \o <<"b">>,
     <<"c", "c", "c">> \o Amp \o <<"d", "d">>,
     <<" ", "a", "&", "b">>,
     <<"%", " ", "x">>,
     <<" ", " ", "%", " ", "c">> \o Amp \o <<"d", "d", "d">>,
     <<"%", "c", "c", "c", "c", "&", "d">>,
     <<" ", " ", BS, "h", "l", "i", "n", "e">>,
     <<>>}

Block(env, lines) == Join(<<Begin(env)>> \o lines \o <<End(env)>>, <<NL>>)

InitTables ==
    /\ pc = "align_tables"
    /\ \E env \in {Tabular, Array} :
       \E lines \in Seqs(BlockLines, MaxBlockLines) :
           text = Block(env, lines)
    /\ content = text
    /\ patterns = DefaultPatterns
    /\ placeholders = <<>>
    /\ IdleErrors /\ IdleSyntax /\ IdleTable

AlignTablesCall ==
    /\ pc = "align_tables"
    /\ content' = align_tables(content)
    /\ pc' = "tables_aligned"
    /\ UNCHANGED <<text, patterns, placeholders, errVars, synVars, tabVars>>

NextTables == AlignTablesCall

SpecTables == InitTables /\ [][NextTables]_vars

\* a comment line
IsCommentLine(line) == StartsAt(Strip(line), 1, <<"%">>)

\* a passthrough row: a comment line or a line without the separator
Passthrough(line) == IsCommentLine(line) \/ ~Contains(line, <<"&">>)

\* the text without its comment lines that hold a separator, the passthrough
\* rows that lie inside a run of data rows
WithoutRunComments(t) ==
    Join(SelectSeq(Split(t, NL),
                   LAMBDA line : ~(IsCommentLine(line) /\ Contains(line, <<"&">>))),
         <<NL>>)

\* the block keeps its number of lines and every passthrough row is returned
\* as it was, at its place
PassthroughKept(in, out) ==
    /\ Len(out) = Len(in)
    /\ \A k \in 1..Len(in) : Passthrough(in[k]) => out[k] = in[k]

\* C12: within a tabular/array block every comment line and every line
\* without '&' is returned byte-identical at its place, the block keeps its
\* number of lines, and such rows contribute nothing to the column widths
\* (the data rows are aligned as they are without the passthrough rows of
\* their run).
C12_PassthroughUntouched ==
    pc = "tables_aligned" =>
        /\ PassthroughKept(Split(text, NL), Split(content, NL))
        /\ WithoutRunComments(content) = align_tables(WithoutRunComments(text))

\* C12 without the indentation of the comment lines that hold a separator
PassthroughUpToIndent ==
    pc = "tables_aligned" =>
        LET in == Split(text, NL)
            out == Split(content, NL)
        IN  /\ Len(out) = Len(in)
            /\ \A k \in 1..Len(in) :
                   Passthrough(in[k]) =>
                       out[k] = (IF Contains(in[k], <<"&">>) THEN Strip(in[k]) ELSE in[k])
            /\ WithoutRunComments(content) = align_tables(WithoutRunComments(text))

(***************************************************************************)
(* SpecMath: one format_math call on a math span (inline, display or an    *)
(* equation environment) whose braces are balanced and which holds no      *)
(* whitespace, so that operator spacing is the only rewrite that applies.  *)
(***************************************************************************)
MaxMathFrags == 5   \* fragments per math span

MathFrags == {<<"a">>, <<"{">>, <<"}">>, <<"a", "+", "a">>, <<"a", "=", "a">>,
              <<"a", "-", "a">>}

MathSpan(kind, body) ==
    CASE kind = "inline" -> <<"$">> \o body \o <<"$">>
      [] kind = "display" -> <<"$", "$">> \o body \o <<"$", "$">>
      [] kind = "environment" -> Begin(MathEnvs[1]) \o body \o End(MathEnvs[1])

InitMath ==
    /\ pc = "format_math"
    /\ \E kind \in {"inline", "display", "environment"} :
       \E body \in {b \in Texts(MathFrags, MaxMathFrags) : BalancedBraces(b)} :
           text = MathSpan(kind, body)
    /\ content = text
    /\ patterns = DefaultPatterns
    /\ placeholders = <<>>
    /\ IdleErrors /\ IdleSyntax /\ IdleTable

FormatMathCall ==
    /\ pc = "format_math"
    /\ content' = format_math(content)
    /\ pc' = "math_formatted"
    /\ UNCHANGED <<text, patterns, placeholders, errVars, synVars, tabVars>>

NextMath == FormatMathCall

SpecMath == InitMath /\ [][NextMath]_vars

\* the characters of t that lie between an opening brace and its matching
\* closing brace, at any depth, in order (with the opening braces)
InBraces(t) ==
    LET inside == SelectSeq([i \in 1..Len(t) |-> i],
                            LAMBDA i : Count(t, i, "{") > Count(t, i, "}"))
    IN  [k \in 1..Len(inside) |-> t[inside[k]]]

\* the deepest nesting of the braces of t
BraceDepth(t) ==
    Max({0} \cup {Count(t, i, "{") - Count(t, i, "}") : i \in 1..Len(t)})

\* C13: within a math span operator spacing is rewritten only outside every
\* {...} group: the characters between an opening brace and its matching
\* closing brace, at any depth, are left unchanged.
C13_BracedGroupsUntouched ==
    pc = "math_formatted" => InBraces(content) = InBraces(text)

\* C13 for the inline and display spans whose braces are not nested
FlatGroupsUntouched ==
    pc = "math_formatted" /\ At(text, 1) = "$" /\ BraceDepth(text) <= 1
        => InBraces(content) = InBraces(text)

(***************************************************************************)
(* SpecPackages: one sort_packages call on a text of whole lines.          *)
(***************************************************************************)
MaxPackageLines == 4   \* lines per text given to sort_packages

PackageLines ==
    {<<BS>> \o Usepackage \o <<"{", "b", "}">>,
     <<BS>> \o Usepackage \o <<"{", "a", "}">>,
     <<" ", " ", BS>> \o Usepackage \o <<"[", "o", "]", "{", "a", "b", "}">>,
     Begin(Document),
     <<"x">>,
     <<>>}

InitPackages ==
    /\ pc = "sort_packages"
    /\ \E lines \in Seqs(PackageLines, MaxPackageLines) :
           Len(lines) > 0 /\ text = Join(lines, <<NL>>)
    /\ content = text
    /\ patterns = DefaultPatterns
    /\ placeholders = <<>>
    /\ IdleErrors /\ IdleSyntax /\ IdleTable

SortPackagesCall ==
    /\ pc = "sort_packages"
    /\ content' = sort_packages(content)
    /\ pc' = "packages_sorted"
    /\ UNCHANGED <<text, patterns, placeholders, errVars, synVars, tabVars>>

NextPackages == SortPackagesCall

SpecPackages == InitPackages /\ [][NextPackages]_vars

\* the lines before the first line that holds \begin{document} (all lines
\* if there is none), and the lines from that line on
DocumentLine(lines) == First({k \in 1..Len(lines) : Contains(lines[k], Begin(Document))})

Preamble(lines) ==
    IF DocumentLine(lines) = 0 THEN lines ELSE SubSeq(lines, 1, DocumentLine(lines) - 1)

Body(lines) ==
    IF DocumentLine(lines) = 0 THEN <<>> ELSE SubSeq(lines, DocumentLine(lines), Len(lines))

IsPackageLine(line) == PackageSearch(Strip(line)) > 0

PackageLinesOf(lines) == SelectSeq(lines, IsPackageLine)

OtherLinesOf(lines) == SelectSeq(lines, LAMBDA line : ~IsPackageLine(line))

\* s and t hold the same elements, each as many times
SameBag(s, t) ==
    /\ Len(s) = Len(t)
    /\ \A i \in 1..Len(s) :
           Cardinality({k \in 1..Len(s) : s[k] = s[i]})
               = Cardinality({k \in 1..Len(t) : t[k] = s[i]})

Stripped(lines) == [k \in 1..Len(lines) |-> Strip(lines[k])]

SortedByName(lines) ==
    \A k \in 1..(Len(lines) - 1) :
        ~StrLess(get_package_name(Strip(lines[k + 1])), get_package_name(Strip(lines[k])))

\* s is t with some elements left out
RECURSIVE IsSubsequence(_, _)
IsSubsequence(s, t) ==
    IF Len(s) = 0 THEN TRUE
    ELSE IF Len(t) = 0 THEN FALSE
    ELSE IF s[1] = t[1] THEN IsSubsequence(Tail(s), Tail(t))
    ELSE IsSubsequence(s, Tail(t))

\* the lines that are not moved: the lines from \begin{document} on stay as
\* they are, the other lines of the preamble keep their order (blank lines
\* may be added between them)
RestKept(in, out) ==
    /\ Body(out) = Body(in)
    /\ IsSubsequence(OtherLinesOf(Preamble(in)), OtherLinesOf(Preamble(out)))
    /\ \A k \in 1..Len(OtherLinesOf(Preamble(out))) :
           LET line == OtherLinesOf(Preamble(out))[k]
           IN  line # <<>> => \E j \in 1..Len(in) : in[j] = line

MaxBlankFrags == 3   \* fragments per text given to format_content

BlankFrags ==
    {<<"a">>, <<NL>>, <<NL, NL, NL, NL>>, <<" ", NL>>, <<"[">>, <<"=", "]">>,
     <<BS>> \o Bibliography \o <<"{", "r", "}">>,
     <<BS>> \o Usepackage \o <<"{", "a", "}">>}

InitBlank ==
    /\ pc = "format_content"
    /\ text \in Texts(BlankFrags, MaxBlankFrags)
    /\ content = text
    /\ patterns = DefaultPatterns
    /\ placeholders = <<>>
    /\ IdleErrors /\ IdleSyntax /\ IdleTable

SpecBlank == InitBlank /\ [][NextFormat]_vars

\* the text has more than n consecutive blank lines (lines of whitespace only)
MoreBlankThan(t, n) ==
    LET lines == Split(t, NL)
    IN  \E k \in 1..(Len(lines) - n) : \A j \in k..(k + n) : Strip(lines[j]) = <<>>

\* the text is the result of compress_empty_lines
Compressed == pc \in {AfterStage("empty_lines"), AfterStage("empty_lines_final")}

\* the result of compress_empty_lines never has more than max_empty_lines
\* consecutive blank lines
CompressBound == Compressed => ~MoreBlankThan(content, max_empty_lines)

\* C15: neither the result of compress_empty_lines nor the text that
\* format_content returns has more than max_empty_lines consecutive blank
\* lines.
C15_BlankLineBound ==
    (Compressed \/ pc = "done") => ~MoreBlankThan(content, max_empty_lines)

\* the same for the texts with no protected span: the stages that run after
\* the last compression do not take the text over the bound
BlankLineBoundUnprotected ==
    (pc = "done" /\ placeholders = <<>>) => ~MoreBlankThan(content, max_empty_lines)

(***************************************************************************)
(* The order of the stages of a run.                                       *)
(***************************************************************************)
\* the order of the stages as the specification gives it, by the category
\* names of the code (bibliography and cross-reference formatting are one
\* item there)
StatedOrder ==
    <<"line_endings", "trailing_whitespace", "empty_lines", "commands",
      "bibliography", "crossreferences", "spacing", "environments", "math",
      "packages", "quotes", "tables", "final_newline">>

\* C16: on every run, with or without a stage that raises, each stage runs
\* once, and the stage that runs after a stage is the next one of the stated
\* order (after the last one the run ends with the restoring of the
\* protected spans); in particular quotes run before tables.
C16_StageOrder ==
    [][\A k \in 1..Len(StatedOrder) :
          (pc = StatedOrder[k] /\ pc' # pc) =>
              pc' = IF k < Len(StatedOrder) THEN StatedOrder[k + 1] ELSE "restore"]_vars

\* the order of the code: the stage after a stage is the next one of Stages,
\* whether the stage returns or raises; blank lines are compressed a second
\* time after the packages, and tables are aligned before quotes are
\* normalised
StageOrderOfCode ==
    [][\A k \in 1..Len(Stages) :
          (pc = Stages[k] /\ pc' # pc) =>
              pc' = IF k < Len(Stages) THEN Stages[k + 1] ELSE "restore"]_vars

(***************************************************************************)
(* SpecShared: format_content calls of several threads on one formatter    *)
(* (format_files_parallel hands the same formatter to every worker).  In   *)
(* this specification pc, text, content and placeholders hold one value    *)
(* per call (the locals of the call); formatting_errors, command_errors    *)
(* and last_errors are the fields of the one instance.  other[c] holds     *)
(* what call c has recorded by itself since its own reset: the diagnostics *)
(* the instance holds when the call runs alone.  A step of a call is one   *)
(* step of the pipeline; the threads interleave between steps.             *)
(***************************************************************************)
MaxCalls == 2   \* concurrent format_content calls on the instance

Calls == 1..MaxCalls

SharedTexts ==
    {<<"a">>, <<"{">>, <<"a", "}">>, <<BS>> \o Cite \o <<" ", "{", "a", "}">>}

Diagnostics(f, c, l) == [formatting_errors |-> f, command_errors |-> c, last_errors |-> l]

InitShared ==
    /\ pc = [c \in Calls |-> "format_content"]
    /\ text \in [Calls -> SharedTexts]
    /\ content = text
    /\ patterns = DefaultPatterns
    /\ placeholders = [c \in Calls |-> <<>>]
    /\ IdleErrors /\ IdleTable
    /\ issues = <<>> /\ env_stack = <<>> /\ all_commands = <<>>
    /\ other = [c \in Calls |-> Diagnostics(<<>>, <<>>, <<>>)]

sharedIdle == <<patterns, fault, first, runs, issues, env_stack, all_commands, tabVars>>

\* format_content up to the call of _format_with_error_recovery
SharedBegin(c) ==
    /\ pc[c] = "format_content"
    /\ last_errors' = <<>>
    /\ formatting_errors' = <<>>
    /\ command_errors' = <<>>
    /\ other' = [other EXCEPT ![c] = Diagnostics(<<>>, <<>>, <<>>)]
    /\ LET st == protect_scientific_content(content[c], patterns)
       IN  /\ content' = [content EXCEPT ![c] = st.protected]
           /\ placeholders' = [placeholders EXCEPT ![c] = st.placeholders]
    /\ pc' = [pc EXCEPT ![c] = "check_syntax"]
    /\ UNCHANGED <<text, sharedIdle>>

\* self.check_syntax(content)
SharedCheckSyntax(c) ==
    /\ pc[c] = "check_syntax"
    /\ formatting_errors' = formatting_errors \o SyntaxFormattingErrors(content[c])
    /\ last_errors' = last_errors \o SyntaxLastErrors(content[c])
    /\ other' = [other EXCEPT ![c] =
                    Diagnostics(@.formatting_errors \o SyntaxFormattingErrors(content[c]),
                                @.command_errors,
                                @.last_errors \o SyntaxLastErrors(content[c]))]
    /\ pc' = [pc EXCEPT ![c] = Stages[1]]
    /\ UNCHANGED <<text, content, placeholders, command_errors, sharedIdle>>

\* one try block of _format_with_error_recovery
SharedStage(c) ==
    /\ \E k \in 1..Len(Stages) : pc[c] = Stages[k]
    /\ content' = [content EXCEPT ![c] = StageResult(pc[c], content[c], patterns)]
    /\ LET detected == IF pc[c] = "commands" THEN detect_command_errors(content[c])
                       ELSE <<>>
       IN  /\ command_errors' = command_errors \o detected
           /\ other' = [other EXCEPT ![c] =
                           Diagnostics(@.formatting_errors,
                                       @.command_errors \o detected, @.last_errors)]
    /\ pc' = [pc EXCEPT ![c] = AfterStage(pc[c])]
    /\ UNCHANGED <<text, placeholders, formatting_errors, last_errors, sharedIdle>>

\* the protected spans are restored and the call returns
SharedEnd(c) ==
    /\ pc[c] = "restore"
    /\ content' = [content EXCEPT ![c] = restore_scientific_content(content[c], placeholders[c])]
    /\ pc' = [pc EXCEPT ![c] = "done"]
    /\ UNCHANGED <<text, placeholders, formatting_errors, command_errors, last_errors,
                   other, sharedIdle>>

NextShared ==
    \E c \in Calls :
        SharedBegin(c) \/ SharedCheckSyntax(c) \/ SharedStage(c) \/ SharedEnd(c)

SpecShared == InitShared /\ [][NextShared]_vars

\* the diagnostics the instance holds
Recorded == Diagnostics(formatting_errors, command_errors, last_errors)

\* C17: under every interleaving of the calls, a call writes no field of the
\* instance, and when a call returns the instance holds the diagnostics that
\* the call leaves when it runs alone.
C17_SharedInstanceSafe ==
    [][/\ Recorded' = Recorded
       /\ \A c \in Calls :
              (pc[c] = "restore" /\ pc'[c] = "done") => Recorded' = other'[c]]_vars

\* the weaker statement: a call may write the fields, but when it returns
\* they hold what the call leaves when it runs alone
DiagnosticsAsAlone ==
    [][\A c \in Calls :
          (pc[c] = "restore" /\ pc'[c] = "done") => Recorded' = other'[c]]_vars

\* when no other call has begun, a call that returns leaves its own
\* diagnostics
DiagnosticsAsAloneWhenAlone ==
    [][\A c \in Calls :
          (/\ pc[c] = "restore" /\ pc'[c] = "done"
           /\ \A d \in Calls \ {c} : pc[d] = "format_content")
              => Recorded' = other'[c]]_vars

(***************************************************************************)
(* SpecCalls: a sequence of check_syntax and format_content calls on one   *)
(* formatter.  text is the text of the most recent call; pc is "checked"   *)
(* when check_syntax has returned and "done" when format_content has.      *)
(***************************************************************************)
MaxSequence == 3   \* calls made on the instance

CallTexts ==
    {<<"a">>, <<"{">>, <<"a", "}">>, Begin(<<"a">>), <<BS>> \o Cite \o <<" ", "{", "a", "}">>}

InitCalls ==
    /\ pc = "idle"
    /\ text = <<>>
    /\ content = <<>>
    /\ patterns = DefaultPatterns
    /\ placeholders = <<>>
    /\ IdleErrors /\ IdleSyntax /\ IdleTable

Returned == pc \in {"idle", "checked", "done"}

\* a call of check_syntax, from its first line to its return
CallCheckSyntax ==
    /\ Returned
    /\ runs < MaxSequence
    /\ \E t \in CallTexts :
          /\ text' = t
          /\ issues' = check_syntax(t)
          /\ formatting_errors' = formatting_errors \o SyntaxFormattingErrors(t)
          /\ last_errors' = last_errors \o SyntaxLastErrors(t)
    /\ runs' = runs + 1
    /\ pc' = "checked"
    /\ UNCHANGED <<content, patterns, placeholders, command_errors, fault, first,
                   env_stack, all_commands, other, tabVars>>

\* a call of format_content; the steps of the pipeline follow
CallFormatContent ==
    /\ Returned
    /\ runs < MaxSequence
    /\ \E t \in CallTexts :
          /\ text' = t
          /\ content' = t
    /\ pc' = "format_content"
    /\ UNCHANGED <<patterns, placeholders, errVars, synVars, tabVars>>

NextCalls == CallCheckSyntax \/ CallFormatContent \/ StagesNext

SpecCalls == InitCalls /\ [][NextCalls]_vars

\* the text on which format_content runs its stages, up to the stage
\* "commands"
BeforeCommands(t) ==
    compress_empty_lines(remove_trailing_whitespace(normalize_line_endings(
        protect_scientific_content(t, DefaultPatterns).protected)))

\* what a format_content call on t that no stage of which raises records
FormatDiagnostics(t) ==
    LET protected == protect_scientific_content(t, DefaultPatterns).protected
    IN  Diagnostics(SyntaxFormattingErrors(protected),
                    detect_command_errors(BeforeCommands(t)),
                    SyntaxLastErrors(protected))

\* C18: after any sequence of check_syntax and format_content calls, the
\* diagnostics that the instance reports (get_formatting_errors, last_errors)
\* are those of the most recent call.
C18_DiagnosticsOfLastCall ==
    /\ pc = "checked" =>
           /\ formatting_errors = SyntaxFormattingErrors(text)
           /\ last_errors = SyntaxLastErrors(text)
    /\ pc = "done" =>
           /\ formatting_errors = FormatDiagnostics(text).formatting_errors
           /\ last_errors = FormatDiagnostics(text).last_errors

\* the part for format_content, which begins by emptying the lists
FormatDiagnosticsOfLastCall == pc = "done" => Recorded = FormatDiagnostics(text)

\* check_syntax adds its diagnostics to those the instance holds
CheckSyntaxAccumulates ==
    [][CallCheckSyntax =>
          /\ formatting_errors' = formatting_errors \o SyntaxFormattingErrors(text')
          /\ last_errors' = last_errors \o SyntaxLastErrors(text')]_vars

(***************************************************************************)
(* SpecLoad: the construction of a formatter over a pattern source         *)
(* (scientific_patterns.json in the pattern directory), followed by one    *)
(* protect/restore round trip with the patterns that were loaded.  In this *)
(* specification other holds the source: whether the file is missing,      *)
(* malformed or read, and, in file order, the entries of its groups as     *)
(* <<group, entry>> pairs.  An entry is <<"str", s>>, a string, or         *)
(* <<"num", s>>, a JSON value that is not a string.                        *)
(***************************************************************************)
MaxEntries == 3   \* entries of a pattern source

\* pattern_groups, in the order load_scientific_patterns reads them
PatternGroups ==
    <<"chemical_formulas", "compound_terms", "reference_patterns", "numerical_ranges",
      "package_options", "comment_patterns", "general_patterns">>

\* "(" is not a regular expression; 5 is not a string
EntryPool == {<<"str", "Li-S">>, <<"str", "X-ray">>, <<"str", "(">>, <<"num", "5">>}

IsString(e) == e[1] = "str"

\* re.compile(pattern_str) returns
Compiles(e) == IsString(e) /\ e[2] \in {"Li-S", "X-ray"}

Sources ==
    {[file |-> f, entries |-> <<>>] : f \in {"missing", "malformed"}}
        \cup {[file |-> "read", entries |-> es] :
                 es \in Seqs((1..Len(PatternGroups)) \X EntryPool, MaxEntries)}

\* config.get(group, [])
GroupEntries(entries, g) ==
    LET own == SelectSeq(entries, LAMBDA p : p[1] = g)
    IN  [k \in 1..Len(own) |-> own[k][2]]

\* the entries in the order of the two loops over pattern_groups
LoadOrder(entries) ==
    GroupEntries(entries, 1) \o GroupEntries(entries, 2) \o GroupEntries(entries, 3)
        \o GroupEntries(entries, 4) \o GroupEntries(entries, 5)
        \o GroupEntries(entries, 6) \o GroupEntries(entries, 7)

Compiled(es) == LET good == SelectSeq(es, Compiles) IN [k \in 1..Len(good) |-> good[k][2]]

\* PatternLoader.load_scientific_patterns: re.error is caught for each entry;
\* re.compile of a value that is not a string raises TypeError, which no
\* except clause of the function catches
load_scientific_patterns(source) ==
    IF source.file # "read" THEN [raised |-> FALSE, patterns |-> DefaultPatterns]
    ELSE IF \E k \in 1..Len(LoadOrder(source.entries)) :
                ~IsString(LoadOrder(source.entries)[k])
    THEN [raised |-> TRUE, patterns |-> <<>>]
    ELSE [raised |-> FALSE, patterns |-> Compiled(LoadOrder(source.entries))]

\* _load_external_patterns: except Exception: _compile_default_protection_patterns()
load_external_patterns(source) ==
    IF load_scientific_patterns(source).raised THEN DefaultPatterns
    ELSE load_scientific_patterns(source).patterns

LoadTexts == {<<"a">>, LiS \o <<" ">> \o Xray}

InitLoad ==
    /\ pc = "construct"
    /\ other \in Sources
    /\ text \in LoadTexts
    /\ content = text
    /\ patterns = <<>>
    /\ placeholders = <<>>
    /\ IdleErrors /\ IdleTable
    /\ issues = <<>> /\ env_stack = <<>> /\ all_commands = <<>>

\* LaTeXFormatter.__init__
Construct ==
    /\ pc = "construct"
    /\ patterns' = load_external_patterns(other)
    /\ pc' = "protect"
    /\ UNCHANGED <<text, content, placeholders, errVars, synVars, tabVars>>

NextLoad == Construct \/ Protect \/ Restore

SpecLoad == InitLoad /\ [][NextLoad]_vars

Constructed == pc # "construct" /\ other.file = "read"

\* C19: for every source, the construction returns, the entries that do not
\* compile (not a regular expression, or not a string) are skipped, and all
\* the other entries of the source are loaded, in their order.
C19_BadEntriesSkipped ==
    Constructed => patterns = Compiled(LoadOrder(other.entries))

\* the same for the sources all of whose entries are strings
InvalidRegexSkipped ==
    (Constructed /\ \A k \in 1..Len(other.entries) : IsString(other.entries[k][2]))
        => patterns = Compiled(LoadOrder(other.entries))

\* a source with an entry that is not a string is given up as a whole
NonStringGivesDefaults ==
    (Constructed /\ \E k \in 1..Len(other.entries) : ~IsString(other.entries[k][2]))
        => patterns = DefaultPatterns

(***************************************************************************)
(* SpecPasses: format_content called again and again on the text it has    *)
(* returned; first holds the text of the pass before.                      *)
(***************************************************************************)
MaxPasses == 4   \* format_content calls in a row

\* format_content is called once more, with the text it has returned
FormatOnceMore ==
    /\ pc = "done"
    /\ runs > 1
    /\ runs < MaxPasses
    /\ first' = content
    /\ pc' = "format_content"
    /\ UNCHANGED <<text, content, patterns, placeholders, formatting_errors,
                   command_errors, last_errors, fault, runs, synVars, tabVars>>

NextPasses == NextFormat \/ FormatOnceMore

SpecPasses == InitFormat /\ [][NextPasses]_vars

\* C20: for every input, the third pass returns the text of the second
\* pass.
C20_ConvergesAfterOnePass == (pc = "done" /\ runs = 3) => content = first

\* one pass later: the fourth pass returns the text of the third pass
ConvergesAfterTwoPasses == (pc = "done" /\ runs = 4) => content = first

(***************************************************************************)
(* SpecTokens: format_content on texts that may hold the text of a         *)
(* placeholder token.                                                      *)
(***************************************************************************)
MaxTokenFrags == 3   \* fragments per text given to format_content

TokenFrags ==
    {<<"a">>, <<" ">>, <<"=">>, LiS, <<"1", "-", "2">>, Token(0), Token(1)}

InitTokens ==
    /\ pc = "format_content"
    /\ text \in Texts(TokenFrags, MaxTokenFrags)
    /\ content = text
    /\ patterns = DefaultPatterns
    /\ placeholders = <<>>
    /\ IdleErrors /\ IdleSyntax /\ IdleTable

SpecTokens == InitTokens /\ [][NextFormat]_vars

\* the run is between its protect call and its return
Running == pc \notin {"format_content", "done"}

\* the tokens of a placeholder map
TokensOf(map) == {map[k][1] : k \in 1..Len(map)}

\* every token of the map of the run was minted once
TokensDistinct ==
    Running => \A i, j \in 1..Len(placeholders) :
                   i # j => placeholders[i][1] # placeholders[j][1]

\* no token that the protect call inside fix_spacing mints is a token of the
\* run that the working text still holds
InnerTokensFresh ==
    pc = "spacing" =>
        \A t \in TokensOf(protect_scientific_content(content, patterns).placeholders) :
            ~(t \in TokensOf(placeholders) /\ Contains(content, t))

\* no token of the run is a substring of the input
TokensNotInInput ==
    Running => \A t \in TokensOf(placeholders) : ~Contains(text, t)

\* C21: placeholder tokens never collide: the tokens of a run are minted
\* once each, a token minted inside fix_spacing is no unrestored token of the
\* run, and no minted token is a substring of the input.
C21_TokensNeverCollide == TokensDistinct /\ InnerTokensFresh /\ TokensNotInInput

(***************************************************************************)
(* Opacity of the placeholders (SpecProtect).                              *)
(***************************************************************************)
\* C22: once a span is replaced by a placeholder, no pattern evaluated later
\* has a match that holds the placeholder: no recorded original holds a
\* token of the map.
C22_ProtectedSpansOpaque ==
    pc # "protect" =>
        \A k \in 1..Len(placeholders) :
            \A t \in TokensOf(placeholders) : ~Contains(placeholders[k][2], t)

\* a token alone is matched by no pattern of the list
TokensMatchNoPattern ==
    pc # "protect" =>
        \A t \in TokensOf(placeholders) : \A j \in 1..Len(patterns) :
            \A i \in 1..Len(t) : PatEnd(patterns[j], t, i) = 0

(***************************************************************************)
(* The accounting of the \begin markers (SpecSyntax).                      *)
(***************************************************************************)
IsBeginStep == pc = "replay" /\ Len(all_commands) > 0 /\ all_commands[1][2] = "begin"

IsLastStep == pc = "replay" /\ Len(all_commands) = 0

\* the diagnostics of a step that report a \begin as unmatched
ReportedBegins ==
    SelectSeq(NewIssues, LAMBDA x : x[1] \in {"Unmatched begin", "Unmatched environment"})

\* C23: every \begin marker becomes one frame; a frame leaves the stack
\* either at an \end of its name, without a diagnostic, or with one
\* 'Unmatched begin' diagnostic naming it; each frame left at the end of the
\* document gets one 'missing end' diagnostic naming it, in the order the
\* frames were opened.
C23_BeginAccounting ==
    [][/\ IsBeginStep =>
              /\ env_stack' = Append(env_stack, all_commands[1][3])
              /\ ReportedBegins = <<>>
       /\ IsEndStep =>
              LET n == Len(env_stack)
                  m == Len(ReportedBegins)
              IN  \/ env_stack' = env_stack /\ m = 0
                  \/ /\ m < n
                     /\ env_stack' = SubSeq(env_stack, 1, n - m - 1)
                     /\ env_stack[n - m] = all_commands[1][3]
                     /\ \A k \in 1..m :
                            ReportedBegins[k] = <<"Unmatched begin", env_stack[n + 1 - k]>>
       /\ IsLastStep =>
              /\ Len(NewIssues) = Len(env_stack)
              /\ \A k \in 1..Len(env_stack) :
                     NewIssues[k] = <<"Unmatched environment", env_stack[k]>>
      ]_vars

\* two frames of different names were left open at the end of the document
C23_Witness ==
    /\ pc = "done"
    /\ \E i, j \in 1..Len(issues) :
           /\ i < j
           /\ issues[i][1] = "Unmatched environment"
           /\ issues[j][1] = "Unmatched environment"
           /\ issues[i][2] # issues[j][2]

(***************************************************************************)
(* The row terminator (SpecTable).                                         *)
(***************************************************************************)
\* a cell without the terminator at its end
Unterminated(cell) ==
    IF EndsWith(cell, Terminator) THEN RStrip(SubSeq(cell, 1, Len(cell) - 2)) ELSE cell

\* the cells of a row as the claim reads them: the terminator is taken from
\* the last cell only
CellsOf(row) ==
    LET cells == SplitRow(row)
    IN  [i \in 1..Len(cells) |-> IF i = Len(cells) THEN Unterminated(cells[i]) ELSE cells[i]]

\* the width of column i when the terminators of the last cells are not
\* counted
WidthOf(i) ==
    Max({0} \cup {Len(CellsOf(rows[r])[i]) :
                     r \in {k \in 1..Len(rows) : IsDataRow(rows[k])
                                                  /\ i <= Len(SplitRow(rows[k]))}})

\* the last cell of the row ends with the terminator
IsTerminated(row) == EndsWith(SplitRow(row)[Len(SplitRow(row))], Terminator)

\* the terminator of a terminated row is at the end of the aligned row, once
TerminatorOnce(row, out) ==
    IsTerminated(row) =>
        /\ EndsWith(out, <<" ">> \o Terminator)
        /\ ~EndsWith(out, Terminator \o <<" ">> \o Terminator)
        /\ ~EndsWith(out, Terminator \o Terminator)

\* the other cells keep a \\ at their end
OtherCellsKept(row, out) ==
    \A i \in 1..(Len(SplitRow(row)) - 1) :
        EndsWith(SplitRow(row)[i], Terminator) =>
            /\ i <= Len(SplitRow(out))
            /\ EndsWith(SplitRow(out)[i], Terminator)

\* a row that is not terminated is not given a terminator
NoneAdded(row, out) == ~IsTerminated(row) => ~EndsWith(out, <<" ">> \o Terminator)

\* no cell of an aligned row is wider than its column without terminators
NotWidened(row, out) ==
    \A i \in 1..(Len(SplitRow(row)) - 1) :
        \A j \in 1..Len(AmpPositions(out)) :
            (i = j /\ ~EndsWith(SplitRow(row)[i], Terminator)) =>
                LET start == IF j = 1 THEN 1 ELSE AmpPositions(out)[j - 1] + 2
                IN  AmpPositions(out)[j] - 1 - start <= WidthOf(i)

\* C24: a \\ terminator is recognised at the end of the last cell of a row
\* only; it is re-appended once at the end of the aligned row; it does not
\* widen a column; a \\ at the end of another cell stays where it is.
C24_TerminatorHandling ==
    pc = "aligned" =>
        \A k \in {r \in 1..Len(rows) : IsDataRow(rows[r])} :
            /\ TerminatorOnce(rows[k], aligned_rows[k])
            /\ NoneAdded(rows[k], aligned_rows[k])
            /\ OtherCellsKept(rows[k], aligned_rows[k])
            /\ NotWidened(rows[k], aligned_rows[k])

\* the part on the last cell, for the rows that have as many cells as the
\* widest row of the run: the terminator comes back once, at the end
TerminatorReappendedOnce ==
    pc = "aligned" =>
        \A k \in {r \in 1..Len(rows) : IsDataRow(rows[r])} :
            (\A r \in 1..Len(rows) : Len(SplitRow(rows[r])) <= Len(SplitRow(rows[k])))
                => TerminatorOnce(rows[k], aligned_rows[k])

(***************************************************************************)
(* SpecIndent: one format_environments call, one line of its loop per      *)
(* step.  In this specification rows holds `lines`, aligned_rows holds     *)
(* `formatted_lines` and runs holds `indent_level`.                        *)
(***************************************************************************)
MaxIndentLines == 4   \* lines per text given to format_environments

IndentLines ==
    {Begin(EnvA), End(EnvA), <<"x">>, <<>>,
     Begin(EnvA) \o <<" ", "x", " ">> \o End(EnvA),
     <<"x", " ">> \o Begin(EnvA),
     Begin(Document), End(Document)}

InitIndent ==
    /\ pc = "format_environments"
    /\ \E lines \in Seqs(IndentLines, MaxIndentLines) :
           Len(lines) > 0 /\ text = Join(lines, <<NL>>)
    /\ content = text
    /\ rows = Split(text, NL)
    /\ aligned_rows = <<>>
    /\ patterns = DefaultPatterns
    /\ placeholders = <<>>
    /\ IdleErrors /\ IdleSyntax

\* the body of `for line in lines`: the formatted line and the level after it
IndentStep(line, indent_level) ==
    LET stripped == Strip(line)
        is_end_command == StartsAt(stripped, 1, EndOpen)
        lower == Max({0, indent_level - 1})
        current_indent == IF stripped = End(Document) THEN 0
                          ELSE IF is_end_command THEN lower
                          ELSE indent_level
    IN  IF stripped = <<>> THEN [line |-> <<>>, level |-> indent_level]
        ELSE [line |-> Indent(current_indent) \o stripped,
              level |-> IF is_end_command THEN lower
                        ELSE IF StartsAt(stripped, 1, BeginOpen) THEN indent_level + 1
                        ELSE indent_level]

IndentLine ==
    /\ pc = "format_environments"
    /\ Len(aligned_rows) < Len(rows)
    /\ LET st == IndentStep(rows[Len(aligned_rows) + 1], runs)
       IN  /\ aligned_rows' = Append(aligned_rows, st.line)
           /\ runs' = st.level
    /\ UNCHANGED <<pc, text, content, patterns, placeholders, formatting_errors,
                   command_errors, last_errors, fault, first, synVars, rows>>

\* return "\n".join(formatted_lines)
IndentReturn ==
    /\ pc = "format_environments"
    /\ Len(aligned_rows) = Len(rows)
    /\ content' = Join(aligned_rows, <<NL>>)
    /\ pc' = "environments_formatted"
    /\ UNCHANGED <<text, patterns, placeholders, errVars, synVars, tabVars>>

NextIndent == IndentLine \/ IndentReturn

SpecIndent == InitIndent /\ [][NextIndent]_vars

\* the loop, line by line, returns what format_environments returns
IndentStepsAgree == pc = "environments_formatted" => content = format_environments(text)

\* the number of markers of a line
MarkerCount(line, open) == Len(MarkersOf(line, open, "marker"))

\* the number of environments open before line k
RECURSIVE OpenBefore(_, _)
OpenBefore(lines, k) ==
    IF k <= 1 THEN 0
    ELSE OpenBefore(lines, k - 1) + MarkerCount(lines[k - 1], BeginOpen)
             - MarkerCount(lines[k - 1], EndOpen)

\* the level of line k: that of its \begin for an \end line, 0 for
\* \end{document}
LevelOf(lines, k) ==
    IF Strip(lines[k]) = End(Document) THEN 0
    ELSE IF StartsAt(Strip(lines[k]), 1, EndOpen) THEN OpenBefore(lines, k) - 1
    ELSE OpenBefore(lines, k)

BalancedMarkers(t) == check_environment_balance(t) = <<>>

IndentedByLevel ==
    /\ runs >= 0
    /\ \A k \in 1..Len(aligned_rows) :
           Strip(rows[k]) # <<>> =>
               aligned_rows[k] = Indent(LevelOf(rows, k)) \o Strip(rows[k])
    /\ pc = "environments_formatted" => runs = 0

\* C25: in a text with balanced markers every non-blank line is indented by
\* indent_size times the number of environments open at the line, the level
\* is never negative and is zero after the last line.
C25_IndentByOpenEnvironments == BalancedMarkers(text) => IndentedByLevel

\* every marker of the text is alone at the start of its line
MarkersStartLines ==
    \A k \in 1..Len(rows) :
        LET n == MarkerCount(rows[k], BeginOpen) + MarkerCount(rows[k], EndOpen)
        IN  n = 0 \/ (n = 1 /\ (StartsAt(Strip(rows[k]), 1, BeginOpen)
                                   \/ StartsAt(Strip(rows[k]), 1, EndOpen)))

\* the same for the texts whose markers each start a line of their own
IndentByOpenEnvironmentsAtLineStart ==
    (BalancedMarkers(text) /\ MarkersStartLines) => IndentedByLevel

(***************************************************************************)
(* The degraded transform (SpecFault).                                     *)
(***************************************************************************)
\* the text with its line endings normalised and the trailing whitespace of
\* every line removed
Cleaned(t) == remove_trailing_whitespace(normalize_line_endings(t))

\* C26: after a fault that escapes the stages, format_content returns the
\* input with normalised line endings, without trailing whitespace on any
\* line, and with a newline at its end: one is added only when the text does
\* not end with one.
C26_DegradedFallback ==
    (pc = "done" /\ EscapingFault) =>
        content = IF EndsWith(Cleaned(text), <<NL>>) THEN Cleaned(text)
                  ELSE Cleaned(text) \o <<NL>>

\* the same for the inputs that do not end with a newline
DegradedFallbackAddsNewline ==
    (pc = "done" /\ EscapingFault /\ ~EndsWith(Cleaned(text), <<NL>>)) =>
        content = Cleaned(text) \o <<NL>>

\* for an input that ends with a newline the result ends with two
DegradedFallbackAddsSecondNewline ==
    (pc = "done" /\ EscapingFault /\ EndsWith(Cleaned(text), <<NL>>)) =>
        content = Cleaned(text) \o <<NL>>

(***************************************************************************)
(* The plugin registry and the execution order (SpecPlugins).  rows is     *)
(* self._plugins, other is self._enabled_plugins, all_commands is          *)
(* remaining_plugins and aligned_rows is sorted_plugins of                 *)
(* get_plugin_execution_order, runs counts the registry calls made.        *)
(***************************************************************************)
MaxRegistryCalls == 3

\* the plugin created by _create_academic_paper_plugin
AcademicPaper == [name |-> "academic_paper", priority |-> 80, dependencies |-> {}]

\* the plugins enable_plugin finds by name: one of the three of
\* _initialize_built_in_plugins
BuiltInPlugins == {AcademicPaper}

\* plugins of the caller: one with a dependency nothing provides, one that
\* depends on it, two that depend on each other, and one that depends on the
\* built-in plugin
UserPlugins ==
    { [name |-> "a", priority |-> 10, dependencies |-> {"zz"}],
      [name |-> "b", priority |-> 90, dependencies |-> {"a"}],
      [name |-> "c", priority |-> 50, dependencies |-> {"d"}],
      [name |-> "d", priority |-> 50, dependencies |-> {"c"}],
      [name |-> "e", priority |-> 90, dependencies |-> {"academic_paper"}] }

PluginPool == UserPlugins \cup BuiltInPlugins

PluginNames == {p.name : p \in PluginPool} \cup {"zz"}

InitPlugins ==
    /\ pc = "idle"
    /\ rows = <<>>
    /\ other = [n \in PluginNames |-> "unset"]
    /\ all_commands = <<>>
    /\ aligned_rows = <<>>
    /\ text = <<>>
    /\ content = <<>>
    /\ patterns = DefaultPatterns
    /\ placeholders = <<>>
    /\ issues = <<>>
    /\ env_stack = <<>>
    /\ IdleErrors

\* self._enabled_plugins.get(name, True)
IsEnabled(enabled, name) == enabled[name] # "off"

get_registered_plugins(plugins, enabled) ==
    LET Keep(p) == IsEnabled(enabled, p.name)
    IN  SelectSeq(plugins, Keep)

\* list.sort(key=get_priority, reverse=True): descending and stable
RECURSIVE InsertByPriority(_, _)
InsertByPriority(sorted, p) ==
    IF sorted = <<>> THEN <<p>>
    ELSE IF Head(sorted).priority >= p.priority
         THEN <<Head(sorted)>> \o InsertByPriority(Tail(sorted), p)
         ELSE <<p>> \o sorted

RECURSIVE SortByPriority(_)
SortByPriority(seq) ==
    IF seq = <<>> THEN <<>>
    ELSE InsertByPriority(SortByPriority(SubSeq(seq, 1, Len(seq) - 1)),
                          seq[Len(seq)])

\* list.remove(p): without the first element equal to p
RemoveFirst(seq, p) ==
    LET i == Min({k \in 1..Len(seq) : seq[k] = p})
    IN  SubSeq(seq, 1, i - 1) \o SubSeq(seq, i + 1, Len(seq))

\* the plugins of remaining_plugins whose dependencies are all resolved
ReadyPlugins(sorted_plugins, remaining_plugins) ==
    LET resolved_names == {sorted_plugins[i].name : i \in 1..Len(sorted_plugins)}
        Ready(p) == p.dependencies \subseteq resolved_names
    IN  SelectSeq(remaining_plugins, Ready)

\* the order the registry is sorted in before the next plugin is taken: when
\* no plugin is ready, ready_plugins is remaining_plugins itself
OrderReady(sorted_plugins, remaining_plugins) ==
    LET ready == ReadyPlugins(sorted_plugins, remaining_plugins)
    IN  SortByPriority(IF ready = <<>> THEN remaining_plugins ELSE ready)

\* one iteration of `while remaining_plugins`
OrderStep(sorted_plugins, remaining_plugins) ==
    LET none == ReadyPlugins(sorted_plugins, remaining_plugins) = <<>>
        ready_plugins == OrderReady(sorted_plugins, remaining_plugins)
        plugin == ready_plugins[1]
    IN  [sorted |-> Append(sorted_plugins, plugin),
         remaining |-> RemoveFirst(IF none THEN ready_plugins
                                   ELSE remaining_plugins, plugin)]

registryIdle == pc \in {"idle", "ordered"} /\ runs < MaxRegistryCalls

RegisterPlugin ==
    /\ registryIdle
    /\ \E plugin \in PluginPool :
           /\ rows' = Append(rows, plugin)
           /\ other' = [other EXCEPT ![plugin.name] = "on"]
    /\ runs' = runs + 1
    /\ pc' = "idle"
    /\ UNCHANGED <<text, content, patterns, placeholders, formatting_errors,
                   command_errors, last_errors, fault, first, issues,
                   env_stack, all_commands, aligned_rows>>

EnablePlugin ==
    /\ registryIdle
    /\ \E plugin_name \in PluginNames :
           /\ other' = [other EXCEPT ![plugin_name] = "on"]
           /\ rows' =
                  IF \E b \in BuiltInPlugins : b.name = plugin_name
                  THEN LET plugin == CHOOSE b \in BuiltInPlugins :
                                         b.name = plugin_name
                       IN  IF \E i \in 1..Len(rows) : rows[i] = plugin
                           THEN rows ELSE Append(rows, plugin)
                  ELSE rows
    /\ runs' = runs + 1
    /\ pc' = "idle"
    /\ UNCHANGED <<text, content, patterns, placeholders, formatting_errors,
                   command_errors, last_errors, fault, first, issues,
                   env_stack, all_commands, aligned_rows>>

DisablePlugin ==
    /\ registryIdle
    /\ \E plugin_name \in PluginNames :
           other' = [other EXCEPT ![plugin_name] = "off"]
    /\ runs' = runs + 1
    /\ pc' = "idle"
    /\ UNCHANGED <<text, content, patterns, placeholders, formatting_errors,
                   command_errors, last_errors, fault, first, issues,
                   env_stack, all_commands, rows, aligned_rows>>

\* get_plugin_execution_order up to the loop
GetOrderBegin ==
    /\ pc = "idle"
    /\ all_commands' = get_registered_plugins(rows, other)
    /\ aligned_rows' = <<>>
    /\ pc' = "order"
    /\ UNCHANGED <<text, content, patterns, placeholders, errVars, issues,
                   env_stack, other, rows>>

GetOrderStep ==
    /\ pc = "order"
    /\ all_commands # <<>>
    /\ LET st == OrderStep(aligned_rows, all_commands)
       IN  /\ aligned_rows' = st.sorted
           /\ all_commands' = st.remaining
    /\ UNCHANGED <<pc, text, content, patterns, placeholders, errVars, issues,
                   env_stack, other, rows>>

\* return sorted_plugins
GetOrderReturn ==
    /\ pc = "order"
    /\ all_commands = <<>>
    /\ pc' = "ordered"
    /\ UNCHANGED <<text, content, patterns, placeholders, errVars, synVars,
                   tabVars>>

NextPlugins ==
    \/ RegisterPlugin
    \/ EnablePlugin
    \/ DisablePlugin
    \/ GetOrderBegin
    \/ GetOrderStep
    \/ GetOrderReturn

SpecPlugins == InitPlugins /\ [][NextPlugins]_vars

\* the loop is not abandoned once it has been entered
SpecPluginsFair == SpecPlugins /\ WF_vars(GetOrderStep \/ GetOrderReturn)

\* how often a plugin is in a list
Occurrences(seq, p) == Cardinality({i \in 1..Len(seq) : seq[i] = p})

Registered(p) == Occurrences(rows, p) > 0

\* C27: the order that get_plugin_execution_order returns holds each enabled
\* registered plugin exactly once and no disabled plugin, whatever register,
\* enable and disable calls were made before.
C27_EachEnabledOnce ==
    pc = "ordered" =>
        \A p \in PluginPool :
            Occurrences(aligned_rows, p) =
                IF Registered(p) /\ IsEnabled(other, p.name) THEN 1 ELSE 0

\* the order holds an enabled plugin as often as it was registered, and no
\* disabled plugin
EachRegistrationOnce ==
    pc = "ordered" =>
        \A p \in PluginPool :
            Occurrences(aligned_rows, p) =
                IF IsEnabled(other, p.name) THEN Occurrences(rows, p) ELSE 0

\* every iteration of the loop takes one plugin out of remaining_plugins
RemainingShrinks ==
    [][(pc = "order" /\ pc' = "order") =>
           Len(all_commands') = Len(all_commands) - 1]_vars

\* the loop of get_plugin_execution_order ends
OrderTerminates == (pc = "order") ~> (pc = "ordered")

\* the plugins of a list
PluginsOf(order) == {order[i] : i \in 1..Len(order)}

\* a plugin of the order stands before every plugin of the order that has a
\* name it declares as a dependency
Inverted(order) ==
    \E i, j \in 1..Len(order) :
        /\ order[j].name \in order[i].dependencies
        /\ \A k \in 1..i : order[k].name # order[j].name

\* the pairs (p, q) of plugins where p declares q, and the pairs reached
\* through n more declarations
Declared(S) == {pq \in S \X S : pq[2].name \in pq[1].dependencies}

RECURSIVE Closure(_, _)
Closure(R, n) ==
    IF n = 0 THEN R
    ELSE Closure(R \cup {<<x[1][1], x[2][2]>> :
                            x \in {y \in R \X R : y[1][2] = y[2][1]}}, n - 1)

\* the declared dependencies of the plugins form a cycle
Cyclic(S) == \E p \in S : <<p, p>> \in Closure(Declared(S), Cardinality(S))

\* every declared dependency names a plugin of the set
Resolvable(S) == \A p \in S : p.dependencies \subseteq {q.name : q \in S}

DependencyOrdered(order) == Inverted(order) => Cyclic(PluginsOf(order))

\* the plugin taken in an iteration is ready and no ready plugin has a
\* higher priority
HighestReadyTaken ==
    LET ready == ReadyPlugins(aligned_rows, all_commands)
        taken == aligned_rows'[Len(aligned_rows')]
    IN  ready # <<>> =>
            /\ taken \in PluginsOf(ready)
            /\ \A q \in PluginsOf(ready) : taken.priority >= q.priority

\* C28: in the returned order no plugin stands before an enabled registered
\* plugin that it declares as a dependency unless the declared dependencies
\* form a cycle, and every iteration takes the ready plugin of the highest
\* priority.
C28_DependencyOrder ==
    [][/\ (pc = "order" /\ pc' = "order") => HighestReadyTaken
       /\ pc' = "ordered" => DependencyOrdered(aligned_rows')]_vars

\* the priority part alone
HighestPriorityReadyFirst ==
    [][(pc = "order" /\ pc' = "order") => HighestReadyTaken]_vars

\* the order respects the dependencies when each of them names an enabled
\* registered plugin and they form no cycle
DependencyOrderedWhenResolvable ==
    (pc = "ordered" /\ Resolvable(PluginsOf(aligned_rows))
                    /\ ~Cyclic(PluginsOf(aligned_rows)))
        => ~Inverted(aligned_rows)

\* a plugin whose dependency is enabled and registered is returned after
\* another plugin and before the dependency: the dependency was never ready
PrecedesUnreadyDependency ==
    /\ pc = "ordered"
    /\ Inverted(aligned_rows)
    /\ ~Cyclic(PluginsOf(aligned_rows))

(***************************************************************************)
(* format_content with registered plugins (SpecApply).  rows is            *)
(* self._plugins, other is self._enabled_plugins, issues is                *)
(* self._plugin_errors, env_stack holds the stage of the _apply_plugins    *)
(* call that is in its loop, all_commands holds the plugins the loop has   *)
(* not visited yet, and aligned_rows holds the calls made for the plugin   *)
(* visited last.                                                           *)
(***************************************************************************)
MaxApplied == 2   \* registered plugins
MaxRaises == 2    \* plugin calls that raise during one format_content

\* what the plugins of the caller offer: format_content, the hooks of
\* get_hooks, and the names of get_formatting_rules in their order
HasFormatContent(plugin) == plugin.name \in {"a", "c"}

Hooks(plugin) ==
    CASE plugin.name = "b" -> {"pre_format", "post_format"}
      [] plugin.name = "c" -> {"pre_format"}
      [] OTHER -> {}

Rules(plugin) ==
    CASE plugin.name = "a" -> <<"r1">>
      [] plugin.name = "b" -> <<"r1", "r2">>
      [] OTHER -> <<>>

ApplyPool == {p \in UserPlugins : p.name \in {"a", "b", "c"}}

ApplyTexts == {<<"a">>, <<"a", NL>>, <<"a", " ", NL, "a">>}

PluginStages == {"pre_format", "format", "post_format"}

\* what a call of a plugin returns when it returns: these plugins add a letter
PluginResult(c) == c \o <<"a">>

\* the call of the if/elif chain for the stage, "none" when no branch is taken
MainCall(plugin, stage) ==
    IF stage = "format" /\ HasFormatContent(plugin) THEN "format_content"
    ELSE IF stage \in {"pre_format", "post_format"} /\ stage \in Hooks(plugin)
         THEN stage
         ELSE "none"

\* for rule_name, rule_func in rules.items(): a rule that raises is recorded
\* and the loop goes on with the text as it was
RECURSIVE RulesLoop(_, _, _, _)
RulesLoop(c, plugin, rules, raises) ==
    IF rules = <<>> THEN [content |-> c, errors |-> <<>>, calls |-> <<>>]
    ELSE LET raised == Head(rules) \in raises
             after == IF raised THEN c ELSE PluginResult(c)
             rest == RulesLoop(after, plugin, Tail(rules), raises)
         IN  [content |-> rest.content,
              errors |-> (IF raised
                          THEN <<[plugin |-> plugin.name, rule |-> Head(rules),
                                  error |-> Raised, type |-> "rule_error"]>>
                          ELSE <<>>) \o rest.errors,
              calls |-> <<[call |-> Head(rules), raised |-> raised,
                           before |-> c, after |-> after]>> \o rest.calls]

\* apply_plugin without the except clause around the call of the stage: the
\* failure of format_content or of a hook leaves no entry
apply_plugin_unrecorded(c, plugin, stage, raises) ==
    LET main == MainCall(plugin, stage)
    IN  IF main # "none" /\ main \in raises
        THEN [content |-> c, errors |-> <<>>,
              calls |-> <<[call |-> main, raised |-> TRUE,
                           before |-> c, after |-> c]>>]
        ELSE LET c1 == IF main = "none" THEN c ELSE PluginResult(c)
                 rest == RulesLoop(c1, plugin, Rules(plugin), raises)
             IN  [content |-> rest.content,
                  errors |-> rest.errors,
                  calls |-> (IF main = "none" THEN <<>>
                             ELSE <<[call |-> main, raised |-> FALSE,
                                     before |-> c, after |-> c1]>>)
                                \o rest.calls]

\* the body of `for plugin in plugins`, where the calls in raises raise: the
\* text, the entries added to self._plugin_errors, and the calls made
apply_plugin(c, plugin, stage, raises) ==
    LET main == MainCall(plugin, stage)
    IN  IF main # "none" /\ main \in raises
        THEN [content |-> c,
              errors |-> <<[plugin |-> plugin.name, stage |-> stage,
                            error |-> Raised, type |-> "execution_error"]>>,
              calls |-> <<[call |-> main, raised |-> TRUE,
                           before |-> c, after |-> c]>>]
        ELSE LET c1 == IF main = "none" THEN c ELSE PluginResult(c)
                 rest == RulesLoop(c1, plugin, Rules(plugin), raises)
             IN  [content |-> rest.content,
                  errors |-> rest.errors,
                  calls |-> (IF main = "none" THEN <<>>
                             ELSE <<[call |-> main, raised |-> FALSE,
                                     before |-> c, after |-> c1]>>)
                                \o rest.calls]

\* the calls apply_plugin can make for a plugin
CallsOf(plugin, stage) ==
    {MainCall(plugin, stage)} \cup
        {Rules(plugin)[i] : i \in 1..Len(Rules(plugin))}

RECURSIVE OrderLoop(_, _)
OrderLoop(sorted_plugins, remaining_plugins) ==
    IF remaining_plugins = <<>> THEN sorted_plugins
    ELSE LET st == OrderStep(sorted_plugins, remaining_plugins)
         IN  OrderLoop(st.sorted, st.remaining)

get_plugin_execution_order(plugins, enabled) ==
    OrderLoop(<<>>, get_registered_plugins(plugins, enabled))

InitApply ==
    /\ pc = "format_content"
    /\ text \in ApplyTexts
    /\ content = text
    /\ patterns = DefaultPatterns
    /\ placeholders = <<>>
    /\ IdleErrors
    /\ rows \in {s \in Seqs(ApplyPool, MaxApplied) : NoRepeat(s)}
    /\ other = [n \in PluginNames |->
                    IF \E i \in 1..Len(rows) : rows[i].name = n
                    THEN "on" ELSE "unset"]
    /\ issues = <<>>
    /\ env_stack = <<>>
    /\ all_commands = <<>>
    /\ aligned_rows = <<>>

\* self.check_syntax(content), before _apply_plugins(content, "pre_format")
ApplyCheckSyntax ==
    /\ pc = "check_syntax"
    /\ formatting_errors' = formatting_errors \o SyntaxFormattingErrors(content)
    /\ last_errors' = last_errors \o SyntaxLastErrors(content)
    /\ pc' = "pre_format"
    /\ UNCHANGED <<text, content, patterns, placeholders, command_errors, fault,
                   first, runs, synVars, tabVars>>

\* plugins = self.get_plugin_execution_order()
ApplyPluginsBegin ==
    /\ pc \in PluginStages
    /\ env_stack = <<>>
    /\ all_commands' = get_plugin_execution_order(rows, other)
    /\ env_stack' = <<pc>>
    /\ aligned_rows' = <<>>
    /\ UNCHANGED <<pc, text, content, patterns, placeholders, errVars, issues,
                   other, rows>>

\* get_plugin_execution_order raises (get_dependencies or get_priority of a
\* plugin raises): nothing in _apply_plugins or _format_with_error_recovery
\* catches it, the except clause of format_content returns
\* _attempt_partial_formatting(content)
ApplyPluginsRaises ==
    /\ pc \in PluginStages
    /\ env_stack = <<>>
    /\ get_registered_plugins(rows, other) # <<>>
    /\ Len(issues) < MaxRaises
    /\ fault' = "get_plugin_execution_order"
    /\ last_errors' = Append(last_errors, Raised)
    /\ content' = attempt_partial_formatting(text)
    /\ runs' = runs + 1
    /\ pc' = "done"
    /\ UNCHANGED <<text, patterns, placeholders, formatting_errors, command_errors,
                   first, synVars, tabVars>>

\* one iteration of `for plugin in plugins`
ApplyPlugin ==
    /\ env_stack # <<>>
    /\ all_commands # <<>>
    /\ LET plugin == Head(all_commands)
       IN  \E raises \in SUBSET (CallsOf(plugin, pc) \ {"none"}) :
               /\ Len(issues) + Cardinality(raises) <= MaxRaises
               /\ MainCall(plugin, pc) \in raises => Cardinality(raises) = 1
               /\ LET st == apply_plugin(content, plugin, pc, raises)
                  IN  /\ content' = st.content
                      /\ issues' = issues \o st.errors
                      /\ aligned_rows' = st.calls
    /\ all_commands' = Tail(all_commands)
    /\ UNCHANGED <<pc, text, patterns, placeholders, errVars, env_stack, other,
                   rows>>

\* return content
ApplyPluginsReturn ==
    /\ env_stack # <<>>
    /\ all_commands = <<>>
    /\ env_stack' = <<>>
    /\ pc' = CASE pc = "pre_format" -> Stages[1]
               [] pc = "format" -> "post_format"
               [] pc = "post_format" -> "restore"
    /\ UNCHANGED <<text, content, patterns, placeholders, errVars, issues,
                   all_commands, other, tabVars>>

\* the try block of ensure_final_newline, before _apply_plugins(content, "format")
ApplyFinalNewline ==
    /\ pc = "final_newline"
    /\ content' = ensure_final_newline(content)
    /\ pc' = "format"
    /\ UNCHANGED <<text, patterns, placeholders, errVars, synVars, tabVars>>

NextApply ==
    \/ FormatBegin \/ ApplyCheckSyntax
    \/ ApplyPluginsBegin \/ ApplyPluginsRaises \/ ApplyPlugin \/ ApplyPluginsReturn
    \/ NormalizeLineEndings \/ RemoveTrailingWhitespace \/ CompressEmptyLines
    \/ NormalizeCommands \/ FormatBibliography \/ FormatCrossreferences
    \/ FixSpacing \/ FormatEnvironments \/ FormatMath \/ SortPackagesStage
    \/ CompressEmptyLinesFinal \/ AlignTables \/ NormalizeQuotes
    \/ ApplyFinalNewline \/ FormatEnd

SpecApply == InitApply /\ [][NextApply]_vars

\* the step is an iteration of the loop of _apply_plugins
PluginVisited ==
    env_stack # <<>> /\ all_commands # <<>> /\ all_commands' = Tail(all_commands)

\* the calls of the iteration hand the text on from one to the next
TextHandedOn ==
    LET calls == aligned_rows'
    IN  /\ content' = IF calls = <<>> THEN content ELSE calls[Len(calls)].after
        /\ calls # <<>> => calls[1].before = content
        /\ \A k \in 1..(Len(calls) - 1) : calls[k + 1].before = calls[k].after

\* every call that raised left the text as it was and an entry that names the
\* plugin, and the loop goes on with the plugins that follow
Isolated ==
    LET plugin == Head(all_commands)
        calls == aligned_rows'
        added == SubSeq(issues', Len(issues) + 1, Len(issues'))
        raised == {k \in 1..Len(calls) : calls[k].raised}
    IN  /\ SubSeq(issues', 1, Len(issues)) = issues
        /\ Len(added) = Cardinality(raised)
        /\ \A k \in 1..Len(added) : added[k].plugin = plugin.name
        /\ \A k \in raised : calls[k].after = calls[k].before
        /\ TextHandedOn
        /\ pc' = pc /\ env_stack' = env_stack /\ fault' = "none"

\* C29: when format_content, a hook or a formatting rule of a plugin raises
\* inside _apply_plugins, an entry naming the plugin is appended to the plugin
\* errors, the text stays as it was before the call, the loop goes on with the
\* later plugins, and format_content does not take the degraded fallback: that
\* is entered from the plugin stages only when the execution order itself
\* cannot be computed.
C29_PluginFaultIsolation ==
    [][/\ PluginVisited => Isolated
       /\ (pc \in PluginStages /\ pc' = "done") => env_stack = <<>>]_vars

\* format_content has returned the formatted text although format_content or
\* a hook of one plugin and a rule raised, and the plugin visited last was
\* called and returned
C29_Witness ==
    /\ pc = "done"
    /\ fault = "none"
    /\ Len(rows) = 2
    /\ \E i, j \in 1..Len(issues) :
           /\ issues[i].type = "execution_error"
           /\ issues[j].type = "rule_error"
    /\ aligned_rows # <<>>
    /\ ~aligned_rows[Len(aligned_rows)].raised
    /\ content # attempt_partial_formatting(text)

(***************************************************************************)
(* The single-pass mode (SpecSinglePass): format_content on a text with    *)
(* use_single_pass set, then format_content on the same text without it.   *)
(* In the single-pass call rows holds the lines not yet read and env_stack *)
(* the state of the loop; other holds what the call returned, content what *)
(* the multi-pass call returns.                                            *)
(***************************************************************************)
MaxPassLines == 3

PassLines ==
    { <<BS>> \o Usepackage \o <<"{", "b", "}">>,
      <<BS>> \o Usepackage \o <<"{", "a", "}">>,
      Begin(Document), <<"x">>, <<>> }

\* the match of "cite_spacing", r"\\(cite[a-z]*)\s*\{\s*([^}]+?)\s*\}", at i:
\* the name it finds and the end of the match
CiteName(t, i) ==
    IF StartsAt(t, i + 1, Cite)
    THEN SubSeq(t, i + 1, Skip(t, i + 1 + Len(Cite), Lower) - 1)
    ELSE <<>>

CiteSpacingEnd(t, i) ==
    IF CiteName(t, i) = <<>> THEN 0 ELSE ArgEnd(t, i, CiteName(t, i))

CiteSpacingRepl(t, i, e) ==
    <<BS>> \o CiteName(t, i) \o <<"{">>
        \o format_citation_list(ArgGroup(t, i, e, CiteName(t, i))) \o <<"}">>

\* "math_spacing": f"${m.group(1).strip()}$"
MathSpacingRepl(t, i, e) == <<"$">> \o Strip(SubSeq(t, i + 1, e - 2)) \o <<"$">>

\* if ... and "verbatim" not in line
QuoteUnlessVerbatim(line) ==
    IF Contains(line, Verbatim) THEN line ELSE DoubleQuotes(line)

apply_combined_formatting(line) ==
    IF Strip(line) = <<>> THEN line
    ELSE LET spaced == Sub(CmdBraceEnd, CmdBraceRepl, line, 1)
             cited == Sub(CiteSpacingEnd, CiteSpacingRepl, spaced, 1)
             bib == NormalizeAlt(cited, <<Bibliography, Bibliographystyle>>, Same)
             refs == NormalizeAlt(bib, <<Ref, Pageref, Eqref, Label>>, Same)
             tight == StripBefore(StripAfter(refs, "{"), "}")
         IN  Sub(InlineMathEnd, MathSpacingRepl, QuoteUnlessVerbatim(tight), 1)

\* packages.sort(): the lines in the order of Python strings
RECURSIVE InsertLine(_, _)
InsertLine(sorted, x) ==
    IF sorted = <<>> THEN <<x>>
    ELSE IF StrLess(x, sorted[1]) THEN <<x>> \o sorted
    ELSE <<sorted[1]>> \o InsertLine(Tail(sorted), x)

RECURSIVE SortLines(_)
SortLines(packages) ==
    IF packages = <<>> THEN <<>>
    ELSE InsertLine(SortLines(SubSeq(packages, 1, Len(packages) - 1)),
                    packages[Len(packages)])

\* list.insert for each of the items, from the 0-based position pos
InsertAt(seq, pos, items) ==
    SubSeq(seq, 1, pos) \o items \o SubSeq(seq, pos + 1, Len(seq))

\* the state of the loop before the first line; package_insert_pos is -1 for
\* None
OptimizedStart ==
    [result_lines |-> <<>>, indent_level |-> 0, empty_line_count |-> 0,
     packages |-> <<>>, package_insert_pos |-> -1, in_preamble |-> TRUE]

\* the branch for a line that holds \begin{document} when packages were
\* collected: result_lines with the sorted packages, and an empty line behind
\* them when a line with content follows
PlacePackages(result_lines, sorted, insert_pos) ==
    LET inserted == InsertAt(result_lines, insert_pos, sorted)
        next_pos == insert_pos + Len(sorted)
    IN  IF next_pos < Len(inserted) /\ Strip(inserted[next_pos + 1]) # <<>>
        THEN InsertAt(inserted, next_pos, << <<>> >>)
        ELSE inserted

\* the branch for a \usepackage line of the preamble
CollectPackage(st, line) ==
    LET none == st.package_insert_pos < 0
        gap == /\ none
               /\ st.result_lines # <<>>
               /\ Strip(st.result_lines[Len(st.result_lines)]) # <<>>
    IN  [st EXCEPT !.empty_line_count = 0,
                   !.packages = Append(@, Strip(line)),
                   !.package_insert_pos =
                       IF none THEN Len(st.result_lines) + (IF gap THEN 1 ELSE 0)
                       ELSE @,
                   !.result_lines = IF gap THEN Append(@, <<>>) ELSE @]

\* the indentation of the formatted line and result_lines.append(line)
AppendIndented(st, formatted, indented) ==
    IF Strip(formatted) = <<>>
    THEN [st EXCEPT !.result_lines = Append(@, formatted)]
    ELSE [st EXCEPT !.result_lines = Append(@, indented.line),
                    !.indent_level = indented.level]

AppendFormatted(st, formatted) ==
    AppendIndented(st, formatted, IndentStep(formatted, st.indent_level))

\* the body of `for line in lines` of _optimized_format_content
OptimizedStep(raw, st) ==
    LET line == RStrip(raw)
        doc == Contains(line, Begin(Document))
        placed == doc /\ st.packages # <<>>
    IN  IF Strip(line) = <<>>
        THEN [st EXCEPT !.empty_line_count = @ + 1,
                        !.result_lines =
                            IF st.empty_line_count + 1 <= max_empty_lines
                            THEN Append(@, <<>>) ELSE @]
        ELSE IF st.in_preamble /\ ~doc /\ Contains(line, <<BS>> \o Usepackage)
        THEN CollectPackage(st, line)
        ELSE AppendFormatted(
                 [st EXCEPT !.empty_line_count = 0,
                            !.in_preamble = @ /\ ~doc,
                            !.packages = IF placed THEN SortLines(@) ELSE @,
                            !.result_lines =
                                IF placed
                                THEN PlacePackages(@, SortLines(st.packages),
                                         IF st.package_insert_pos >= 0
                                         THEN st.package_insert_pos ELSE Len(@))
                                ELSE @],
                 apply_combined_formatting(line))

InitSinglePass ==
    /\ pc = "single_pass"
    /\ \E lines \in Seqs(PassLines, MaxPassLines) :
           Len(lines) > 0 /\ text = Join(lines, <<NL>>)
    /\ content = text
    /\ patterns = DefaultPatterns
    /\ placeholders = <<>>
    /\ IdleErrors /\ IdleSyntax /\ IdleTable

\* format_content with use_single_pass set, up to the loop of
\* _optimized_format_content
SinglePassBegin ==
    /\ pc = "single_pass"
    /\ LET st == protect_scientific_content(content, patterns)
       IN  /\ placeholders' = st.placeholders
           /\ rows' = Split(normalize_line_endings(st.protected), NL)
    /\ env_stack' = OptimizedStart
    /\ pc' = "optimized_format_content"
    /\ UNCHANGED <<text, content, patterns, errVars, issues, all_commands,
                   other, aligned_rows>>

\* one iteration of `for line in lines`
SinglePassLine ==
    /\ pc = "optimized_format_content"
    /\ rows # <<>>
    /\ env_stack' = OptimizedStep(Head(rows), env_stack)
    /\ rows' = Tail(rows)
    /\ UNCHANGED <<pc, text, content, patterns, placeholders, errVars, issues,
                   all_commands, other, aligned_rows>>

\* the final assembly, the final newline, _restore_scientific_content and the
\* return of format_content
SinglePassEnd ==
    /\ pc = "optimized_format_content"
    /\ rows = <<>>
    /\ other' = restore_scientific_content(
                    ensure_final_newline(Join(env_stack.result_lines, <<NL>>)),
                    placeholders)
    /\ env_stack' = <<>>
    /\ placeholders' = <<>>
    /\ pc' = "format_content"
    /\ UNCHANGED <<text, content, patterns, errVars, issues, all_commands,
                   tabVars>>

NextSinglePass ==
    SinglePassBegin \/ SinglePassLine \/ SinglePassEnd \/ StagesNext

SpecSinglePass == InitSinglePass /\ [][NextSinglePass]_vars

\* the lines of a text that hold \usepackage, without the whitespace around
\* them
UsepackageLines(t) ==
    LET lines == Split(t, NL)
    IN  SelectSeq([k \in 1..Len(lines) |-> Strip(lines[k])],
                  LAMBDA l : Contains(l, <<BS>> \o Usepackage))

HasDocumentLine(t) == Contains(t, Begin(Document))

\* the number of lines that hold \begin{document}
DocumentLines(t) ==
    LET lines == Split(t, NL)
    IN  Cardinality({k \in 1..Len(lines) : Contains(lines[k], Begin(Document))})

SamePackages ==
    /\ PluginsOf(UsepackageLines(text)) \subseteq PluginsOf(UsepackageLines(other))
    /\ Len(UsepackageLines(other)) = Len(UsepackageLines(content))

\* C30: the single-pass mode keeps the package declarations of the multi-pass
\* pipeline: every \usepackage line of the input is a line of the single-pass
\* output, which has as many \usepackage lines as the multi-pass output, with
\* or without a \begin{document} line.
C30_SinglePassKeepsPackages == pc = "done" => SamePackages

\* the same for the inputs with one line that holds \begin{document}
SinglePassKeepsPackagesOfDocument ==
    (pc = "done" /\ DocumentLines(text) = 1) => SamePackages

\* without \begin{document} the single-pass output holds no \usepackage line
SinglePassDropsPackages ==
    (pc = "done" /\ ~HasDocumentLine(text)) => UsepackageLines(other) = <<>>

====
